---- MODULE Spec2Model ----
(***************************************************************************)
(* Verification model of src/src/htmlToSvg.ts: the snapshot of a styled    *)
(* element tree, the style value parsers, the rounded-rectangle geometry   *)
(* and the document emitter.                                               *)
(*                                                                         *)
(* Strings are TLA+ strings, read by index as the regular expressions and  *)
(* loops of the source read them.  Numbers (the doubles of the source)     *)
(* are integers counting 1/SCALE of a unit; SCALE is chosen so that        *)
(* decimals with up to four fraction digits and every k/255 are exact.     *)
(*                                                                         *)
(* Where the source binds a value to a const and reads it several times,   *)
(* the value is the parameter of an operator here.                         *)
(***************************************************************************)
EXTENDS Integers, Sequences, FiniteSets, TLC

VARIABLES nodeCounter, dom, op, arg, ret, obs, app

vars == <<nodeCounter, dom, op, arg, ret, obs, app>>

(***************************************************************************)
(* Numbers                                                                 *)
(***************************************************************************)
\* 1 = SCALE units; 1/1000 = MILLI units; 1/255 = SCALE \div 255 units.
SCALE == 4000 * 255
MILLI == SCALE \div 1000

Num(n) == n * SCALE
Min2(a, b) == IF a <= b THEN a ELSE b
Max2(a, b) == IF a >= b THEN a ELSE b
Abs(a) == IF a < 0 THEN -a ELSE a

(***************************************************************************)
(* Characters and strings                                                  *)
(***************************************************************************)
Char(s, i) == SubSeq(s, i, i)

Digits == {"0", "1", "2", "3", "4", "5", "6", "7", "8", "9"}
LowerHexLetters == {"a", "b", "c", "d", "e", "f"}
UpperHexLetters == {"A", "B", "C", "D", "E", "F"}
HexChars == Digits \cup LowerHexLetters \cup UpperHexLetters
WhiteSpace == {" ", "\t", "\n"}

DigitVal(c) ==
    CASE c = "0" -> 0 [] c = "1" -> 1 [] c = "2" -> 2 [] c = "3" -> 3
      [] c = "4" -> 4 [] c = "5" -> 5 [] c = "6" -> 6 [] c = "7" -> 7
      [] c = "8" -> 8 [] c = "9" -> 9
      [] c \in {"a", "A"} -> 10 [] c \in {"b", "B"} -> 11
      [] c \in {"c", "C"} -> 12 [] c \in {"d", "D"} -> 13
      [] c \in {"e", "E"} -> 14 [] c \in {"f", "F"} -> 15

HexDigitOf(n) == Char("0123456789abcdef", n + 1)

\* First index >= i of s whose character is not in set cs (Len(s)+1 if none).
SkipWhile(s, i, cs) ==
    CHOOSE j \in i..Max2(i, Len(s) + 1) :
        /\ j > Len(s) \/ Char(s, j) \notin cs
        /\ \A k \in i..(j - 1) : Char(s, k) \in cs

\* First index >= i of s whose character is in set cs (Len(s)+1 if none).
SkipUntil(s, i, cs) ==
    CHOOSE j \in i..Max2(i, Len(s) + 1) :
        /\ j > Len(s) \/ Char(s, j) \in cs
        /\ \A k \in i..(j - 1) : Char(s, k) \notin cs

\* Last index <= i of s whose character is not white space (0 if none).
SkipBack(s, i) ==
    CHOOSE j \in Min2(i, 0)..i :
        /\ j < 1 \/ Char(s, j) \notin WhiteSpace
        /\ \A k \in (j + 1)..i : Char(s, k) \in WhiteSpace

\* String.prototype.trim
Trim(s) == SubSeq(s, SkipWhile(s, 1, WhiteSpace), SkipBack(s, Len(s)))

\* ASCII lower-casing of one character (the /i flag and toLowerCase).
LowerChar(c) ==
    CASE c = "A" -> "a" [] c = "B" -> "b" [] c = "C" -> "c" [] c = "D" -> "d"
      [] c = "E" -> "e" [] c = "F" -> "f" [] c = "G" -> "g" [] c = "H" -> "h"
      [] c = "I" -> "i" [] c = "J" -> "j" [] c = "K" -> "k" [] c = "L" -> "l"
      [] c = "M" -> "m" [] c = "N" -> "n" [] c = "O" -> "o" [] c = "P" -> "p"
      [] c = "Q" -> "q" [] c = "R" -> "r" [] c = "S" -> "s" [] c = "T" -> "t"
      [] c = "U" -> "u" [] c = "V" -> "v" [] c = "W" -> "w" [] c = "X" -> "x"
      [] c = "Y" -> "y" [] c = "Z" -> "z"
      [] OTHER -> c

\* toLowerCase, one half of the string after the other
RECURSIVE ToLower(_)
ToLower(s) ==
    IF Len(s) <= 1 THEN LowerChar(s)
    ELSE ToLower(SubSeq(s, 1, Len(s) \div 2)) \o ToLower(SubSeq(s, Len(s) \div 2 + 1, Len(s)))

\* value.replace(/c/g, by[c]) for the characters c in DOMAIN by
\* (one half of the string after the other)
RECURSIVE ReplaceChars(_, _)
ReplaceChars(value, by) ==
    IF Len(value) <= 1 THEN (IF value \in DOMAIN by THEN by[value] ELSE value)
    ELSE ReplaceChars(SubSeq(value, 1, Len(value) \div 2), by)
         \o ReplaceChars(SubSeq(value, Len(value) \div 2 + 1, Len(value)), by)

\* Does s carry the literal lit at index i?
StartsAt(s, i, lit) ==
    /\ i >= 1
    /\ i + Len(lit) - 1 <= Len(s)
    /\ SubSeq(s, i, i + Len(lit) - 1) = lit

\* The same under the i flag; lit is written in lower case.
StartsAtIgnoreCase(s, i, lit) ==
    /\ i >= 1
    /\ i + Len(lit) - 1 <= Len(s)
    /\ ToLower(SubSeq(s, i, i + Len(lit) - 1)) = lit

\* String.prototype.indexOf(lit, from), 1-based; 0 when absent.
IndexOfFrom(s, lit, from) ==
    IF \E j \in from..(Len(s) - Len(lit) + 1) : SubSeq(s, j, j + Len(lit) - 1) = lit
    THEN CHOOSE j \in from..(Len(s) - Len(lit) + 1) :
             /\ SubSeq(s, j, j + Len(lit) - 1) = lit
             /\ \A k \in from..(j - 1) : SubSeq(s, k, k + Len(lit) - 1) # lit
    ELSE 0

IndexOf(s, lit) == IndexOfFrom(s, lit, 1)
Includes(s, lit) == IndexOf(s, lit) # 0
StartsWith(s, lit) == StartsAt(s, 1, lit)
EndsWith(s, lit) == Len(lit) <= Len(s) /\ StartsAt(s, Len(s) - Len(lit) + 1, lit)

\* parseInt(digits, 10) of a run of decimal digits.
RECURSIVE ParseDec(_, _)
ParseDec(s, acc) ==
    IF s = "" THEN acc ELSE ParseDec(Tail(s), acc * 10 + DigitVal(Head(s)))

\* parseInt(digits, 16) of a run of hex digits.
RECURSIVE ParseHex(_, _)
ParseHex(s, acc) ==
    IF s = "" THEN acc ELSE ParseHex(Tail(s), acc * 16 + DigitVal(Head(s)))

\* The value of the fraction digits s, d1 d2 ..., in SCALE units: the
\* i-th digit weighs unit = SCALE / 10^i (exact for the first four digits).
RECURSIVE FractionUnits(_, _)
FractionUnits(s, unit) ==
    IF s = "" \/ unit = 0 THEN 0
    ELSE DigitVal(Head(s)) * unit + FractionUnits(Tail(s), unit \div 10)

\* value.split(/\s+/).filter(Boolean): the maximal runs without white space
\* of s from index i on.
RECURSIVE SplitWhiteSpaceFrom(_, _)
SplitWhiteSpaceFrom(s, i) ==
    LET \* a is the first index that is not white space
        token(a) ==
            IF a > Len(s) THEN <<>>
            ELSE <<SubSeq(s, a, SkipUntil(s, a, WhiteSpace) - 1)>>
                 \o SplitWhiteSpaceFrom(s, SkipUntil(s, a, WhiteSpace))
    IN token(SkipWhile(s, i, WhiteSpace))

SplitWhiteSpace(s) == SplitWhiteSpaceFrom(s, 1)

\* parts.join(sep)
RECURSIVE JoinWith(_, _)
JoinWith(parts, sep) ==
    IF parts = <<>> THEN ""
    ELSE IF Len(parts) = 1 THEN parts[1]
    ELSE parts[1] \o sep \o JoinWith(Tail(parts), sep)

(***************************************************************************)
(* Regular expressions                                                     *)
(*                                                                         *)
(* A regular expression without alternation is a sequence of items: a      *)
(* literal, an optional literal, or the longest run of the characters of   *)
(* a class, which may be a capture group.  An optional group makes two     *)
(* sequences, the one with the group being tried first.  In the            *)
(* expressions of the source no item can give back a character to the      *)
(* item after it, so the items are matched from left to right.             *)
(***************************************************************************)
\* the literal lit; lit is written in lower case when the i flag is set
Lit(lit, ignoreCase) == [kind |-> "lit", lit |-> lit, ignoreCase |-> ignoreCase]
\* lit?
Opt(lit, ignoreCase) == [kind |-> "opt", lit |-> lit, ignoreCase |-> ignoreCase]
\* [set]{min,}, a capture group when capture is set
Run(set, min, capture) == [kind |-> "run", set |-> set, min |-> min, capture |-> capture]

\* the result of an expression that does not match
NoMatch == [ok |-> FALSE, alt |-> 0, start |-> 0, end |-> 0, groups |-> <<>>]

\* Does s carry the literal of the item at index i?
LitAt(s, i, item) ==
    IF item.ignoreCase THEN StartsAtIgnoreCase(s, i, item.lit) ELSE StartsAt(s, i, item.lit)

\* The index after what the item takes at index i of s, 0 when the item
\* does not match there.
ItemEnd(s, i, item) ==
    CASE item.kind = "lit" -> IF LitAt(s, i, item) THEN i + Len(item.lit) ELSE 0
      [] item.kind = "opt" -> IF LitAt(s, i, item) THEN i + Len(item.lit) ELSE i
      [] item.kind = "run" ->
           IF SkipWhile(s, i, item.set) - i < item.min THEN 0 ELSE SkipWhile(s, i, item.set)

\* The match of one item at index i of s.  The result of a match is [ok, alt,
\* start, end, groups]: end is the index after the match.
MatchItem(s, i, item) ==
    IF ItemEnd(s, i, item) = 0 THEN NoMatch
    ELSE [ok |-> TRUE, alt |-> 0, start |-> 0, end |-> ItemEnd(s, i, item),
          groups |-> IF item.kind = "run" /\ item.capture
                     THEN <<SubSeq(s, i, ItemEnd(s, i, item) - 1)>>
                     ELSE <<>>]

\* The match of the items at index i of s: the first half of the items, then
\* the second half where the first half ends.
RECURSIVE MatchAt(_, _, _)
MatchAt(s, i, items) ==
    LET joined(left, right) ==
            IF right.ok THEN [right EXCEPT !.groups = left.groups \o right.groups]
            ELSE NoMatch
        followed(left) ==
            IF left.ok
            THEN joined(left, MatchAt(s, left.end,
                                      SubSeq(items, Len(items) \div 2 + 1, Len(items))))
            ELSE NoMatch
    IN CASE Len(items) = 0 ->
              [ok |-> TRUE, alt |-> 0, start |-> 0, end |-> i, groups |-> <<>>]
         [] Len(items) = 1 -> MatchItem(s, i, items[1])
         [] OTHER -> followed(MatchAt(s, i, SubSeq(items, 1, Len(items) \div 2)))

\* The first of the alternatives from position k on that matches at index i
\* of s; alt is its position.
RECURSIVE MatchFirst(_, _, _, _)
MatchFirst(s, i, alternatives, k) ==
    LET tried(m) ==
            IF m.ok THEN [m EXCEPT !.alt = k, !.start = i]
            ELSE MatchFirst(s, i, alternatives, k + 1)
    IN IF k > Len(alternatives) THEN NoMatch
       ELSE tried(MatchAt(s, i, alternatives[k]))

\* s.match(regex) for an expression that is not anchored: the leftmost of
\* the matches at the indices of s.
Search(s, alternatives) ==
    LET leftmost(matches) ==
            IF matches = {} THEN NoMatch
            ELSE CHOOSE m \in matches : \A n \in matches : m.start <= n.start
    IN leftmost({m \in {MatchFirst(s, i, alternatives, 1) : i \in 1..Len(s)} : m.ok})

\* parseFloat reads \s*[+-]?\d*\.?\d* from the start of the string
FloatSyntax ==
    LET number == <<Run(Digits, 0, TRUE), Opt(".", FALSE), Run(Digits, 0, TRUE)>>
    IN << <<Run(WhiteSpace, 0, FALSE), Lit("-", FALSE)>> \o number,
          <<Run(WhiteSpace, 0, FALSE), Opt("+", FALSE)>> \o number >>

\* parseFloat: NaN when no digit is read.  The result is [nan, v].
ParseFloat(s) ==
    LET number(m) ==
            IF m.groups[1] = "" /\ m.groups[2] = "" THEN [nan |-> TRUE, v |-> 0]
            ELSE [nan |-> FALSE,
                  v |-> (IF m.alt = 1 THEN -1 ELSE 1)
                        * (ParseDec(m.groups[1], 0) * SCALE
                           + FractionUnits(m.groups[2], SCALE \div 10))]
    IN number(MatchFirst(s, 1, FloatSyntax, 1))

(***************************************************************************)
(* Colour parsing                                                          *)
(***************************************************************************)
\* value.match(RGBA_REGEX):
\*   /rgba?\((\d+)\s*,\s*(\d+)\s*,\s*(\d+)(?:\s*,\s*([\d.]+))?\)/i
RGBA_REGEX(s) ==
    LET comma == <<Run(WhiteSpace, 0, FALSE), Lit(",", TRUE), Run(WhiteSpace, 0, FALSE)>>
        channels == <<Lit("rgb", TRUE), Opt("a", TRUE), Lit("(", TRUE), Run(Digits, 1, TRUE)>>
                    \o comma \o <<Run(Digits, 1, TRUE)>>
                    \o comma \o <<Run(Digits, 1, TRUE)>>
    IN Search(s, << channels \o comma \o <<Run(Digits \cup {"."}, 1, TRUE), Lit(")", TRUE)>>,
                       channels \o <<Lit(")", TRUE)>> >>)

\* value.match(HEX_REGEX):  /^#([0-9a-f]{3}|[0-9a-f]{4}|[0-9a-f]{6}|[0-9a-f]{8})$/i
\* The result is [ok, g1].
HEX_REGEX(s) ==
    IF /\ s # ""
       /\ Head(s) = "#"
       /\ Len(s) - 1 \in {3, 4, 6, 8}
       /\ SkipWhile(s, 2, HexChars) = Len(s) + 1
    THEN [ok |-> TRUE, g1 |-> Tail(s)]
    ELSE [ok |-> FALSE, g1 |-> ""]

RECURSIVE DoubleChars(_)
DoubleChars(s) ==
    IF s = "" THEN "" ELSE Head(s) \o Head(s) \o DoubleChars(Tail(s))

\* normalizeHex repeating a 3-digit value instead of doubling its digits
normalizeHexRepeated(value) ==
    IF Len(value) = 3 THEN value \o value \o "ff"
    ELSE IF Len(value) = 4 THEN DoubleChars(value)
    ELSE IF Len(value) = 6 THEN value \o "ff"
    ELSE value

normalizeHex(value) ==
    IF Len(value) = 3 THEN DoubleChars(value) \o "ff"
    ELSE IF Len(value) = 4 THEN DoubleChars(value)
    ELSE IF Len(value) = 6 THEN value \o "ff"
    ELSE value

\* channel.toString(16)
RECURSIVE ToStringBase16(_)
ToStringBase16(n) ==
    IF n < 16 THEN HexDigitOf(n) ELSE ToStringBase16(n \div 16) \o HexDigitOf(n % 16)

\* channel.toString(16).padStart(2, '0')
toHex(channel) ==
    LET padStart(h) == IF Len(h) < 2 THEN "0" \o h ELSE h
    IN padStart(ToStringBase16(channel))

rgbToHex(r, g, b) == "#" \o toHex(r) \o toHex(g) \o toHex(b)

clampChannel(value) == Min2(255, Max2(0, value))

\* clampNumber applied to the result of parseFloat.
clampNumber(value, fallback) == IF value.nan THEN fallback ELSE value.v

\* The branch of parseColor for a match of RGBA_REGEX.
colorOfRgba(rgbaMatch) ==
    [color |-> rgbToHex(clampChannel(ParseDec(rgbaMatch.groups[1], 0)),
                        clampChannel(ParseDec(rgbaMatch.groups[2], 0)),
                        clampChannel(ParseDec(rgbaMatch.groups[3], 0))),
     opacity |-> IF Len(rgbaMatch.groups) = 4
                 THEN clampNumber(ParseFloat(rgbaMatch.groups[4]), Num(1))
                 ELSE Num(1)]

\* The branch of parseColor for a match of HEX_REGEX.
colorOfHex(normalized) ==
    [color |-> "#" \o SubSeq(normalized, 1, 6),
     opacity |-> IF Len(normalized) = 8
                 THEN (ParseHex(SubSeq(normalized, 7, 8), 0) * SCALE) \div 255
                 ELSE Num(1)]

\* parseColor from const trimmed on.
colorOfTrimmed(trimmed, rgbaMatch, hexMatch) ==
    IF rgbaMatch.ok THEN colorOfRgba(rgbaMatch)
    ELSE IF hexMatch.ok THEN colorOfHex(normalizeHex(hexMatch.g1))
    ELSE [color |-> trimmed, opacity |-> Num(1)]

parseColor(value) ==
    IF value = "" THEN [color |-> "#000000", opacity |-> Num(1)]
    ELSE colorOfTrimmed(Trim(value), RGBA_REGEX(Trim(value)), HEX_REGEX(Trim(value)))

(***************************************************************************)
(* Fill parsing: linear gradients and background colours                   *)
(***************************************************************************)
Null == [kind |-> "null"]

\* The loop of extractLinearGradientSegment from index i at the given depth:
\* the index of the parenthesis that closes the segment, 0 when none does.
\* The turns of the loop at other characters change nothing and are taken
\* together: i is the first parenthesis at or after the index reached.
RECURSIVE SegmentEnd(_, _, _)
SegmentEnd(value, i, depth) ==
    CASE i > Len(value) -> 0
      [] Char(value, i) = "(" ->
           SegmentEnd(value, SkipUntil(value, i + 1, {"(", ")"}), depth + 1)
      [] Char(value, i) = ")" /\ depth - 1 = 0 -> i
      [] Char(value, i) = ")" /\ depth - 1 # 0 ->
           SegmentEnd(value, SkipUntil(value, i + 1, {"(", ")"}), depth - 1)

\* The result is [ok, segment].
extractLinearGradientSegment(value) ==
    LET index == IndexOf(value, "linear-gradient")
        start == IndexOfFrom(value, "(", index)
        end == SegmentEnd(value, SkipUntil(value, start + 1, {"(", ")"}), 1)
    IN IF index = 0 \/ start = 0 \/ end = 0 THEN [ok |-> FALSE, segment |-> ""]
       ELSE [ok |-> TRUE, segment |-> SubSeq(value, index, end)]

\* The loop of splitGradientArgs and of splitShadowValue up to its next
\* push: the index of the first comma at depth 0 from index i on, the depth
\* at i being given (Len(input)+1 when there is none).  The turns at other
\* characters only add to the buffer and are taken together: i is the first
\* parenthesis or comma at or after the index reached.
RECURSIVE TopLevelComma(_, _, _)
TopLevelComma(input, i, depth) ==
    CASE i > Len(input) -> i
      [] Char(input, i) = "(" ->
           TopLevelComma(input, SkipUntil(input, i + 1, {"(", ")", ","}), depth + 1)
      [] Char(input, i) = ")" ->
           TopLevelComma(input, SkipUntil(input, i + 1, {"(", ")", ","}), Max2(depth - 1, 0))
      [] Char(input, i) = "," /\ depth = 0 -> i
      [] Char(input, i) = "," /\ depth # 0 ->
           TopLevelComma(input, SkipUntil(input, i + 1, {"(", ")", ","}), depth)

\* The result of that loop for the input from index from on: the buffer,
\* trimmed, at every comma at depth 0, and at the end unless it is blank.
RECURSIVE SplitTopLevelCommas(_, _)
SplitTopLevelCommas(input, from) ==
    LET piece(comma) ==
            IF comma <= Len(input)
            THEN <<Trim(SubSeq(input, from, comma - 1))>> \o SplitTopLevelCommas(input, comma + 1)
            ELSE IF Trim(SubSeq(input, from, Len(input))) # ""
                 THEN <<Trim(SubSeq(input, from, Len(input)))>>
            ELSE <<>>
    IN piece(TopLevelComma(input, SkipUntil(input, from, {"(", ")", ","}), 0))

splitGradientArgs(input) == SplitTopLevelCommas(input, 1)

\* (v * 180) / Math.PI with 355/113 for pi
RadToDeg(v) == ((v \div 355) * 180) * 113

parseGradientAngle(token) ==
    LET \* value is parseFloat(trimmed)
        angleOf(trimmed, value) ==
            IF EndsWith(trimmed, "deg") THEN clampNumber(value, Num(180))
            ELSE IF EndsWith(trimmed, "rad")
                 THEN IF value.nan THEN Num(180) ELSE RadToDeg(value.v)
            ELSE CASE trimmed = "to top" -> Num(0)
                   [] trimmed = "to right" -> Num(90)
                   [] trimmed = "to bottom" -> Num(180)
                   [] trimmed = "to left" -> Num(270)
                   [] trimmed = "to top right" -> Num(45)
                   [] trimmed = "to top left" -> Num(315)
                   [] trimmed = "to bottom right" -> Num(135)
                   [] trimmed = "to bottom left" -> Num(225)
                   [] OTHER -> Num(180)
    IN angleOf(ToLower(Trim(token)), ParseFloat(ToLower(Trim(token))))

\* Is the first parenthesis of s from index i on a closing one, that is,
\* does [^()]*\) match at i?
ClosesFirst(s, i) == StartsAt(s, SkipUntil(s, i, {"(", ")"}), ")")

\* token.split(/\s+(?![^()]*\))/): split at the runs of white space that lie
\* outside parentheses; the piece at hand starts at from, i is the first
\* white space not yet looked at (Len(token)+1 when there is none).
RECURSIVE SplitOutsideParens(_, _, _)
SplitOutsideParens(token, from, i) ==
    CASE i > Len(token) -> <<SubSeq(token, from, Len(token))>>
      [] i <= Len(token) /\ ClosesFirst(token, SkipWhile(token, i, WhiteSpace)) ->
           SplitOutsideParens(token, from,
                              SkipUntil(token, SkipWhile(token, i, WhiteSpace), WhiteSpace))
      [] OTHER ->
           <<SubSeq(token, from, i - 1)>>
           \o SplitOutsideParens(token, SkipWhile(token, i, WhiteSpace),
                                 SkipUntil(token, SkipWhile(token, i, WhiteSpace), WhiteSpace))

\* parseGradientStop from const parts on; even is index / Math.max(total - 1, 1).
stopOfParts(token, parts, even) ==
    LET offsetOf(value) == IF value.nan THEN even ELSE value.v \div 100
        stop(c, offset) == [color |-> c.color, opacity |-> c.opacity, offset |-> offset]
    IN stop(parseColor(IF Len(parts) > 1 /\ EndsWith(parts[Len(parts)], "%")
                       THEN JoinWith(SubSeq(parts, 1, Len(parts) - 1), " ")
                       ELSE token),
            IF Len(parts) > 1 /\ EndsWith(parts[Len(parts)], "%")
            THEN offsetOf(ParseFloat(parts[Len(parts)]))
            ELSE even)

\* index is 0-based, as in the source.  The result is a GradientStop or Null.
parseGradientStop(token, index, total) ==
    IF token = "" THEN Null
    ELSE stopOfParts(token, SplitOutsideParens(token, 1, SkipUntil(token, 1, WhiteSpace)),
                     (index * SCALE) \div Max2(total - 1, 1))

\* tokens.slice(startIndex).forEach(...): the stops of arr from position k on
RECURSIVE CollectStops(_, _)
CollectStops(arr, k) ==
    LET push(stop) == (IF stop = Null THEN <<>> ELSE <<stop>>) \o CollectStops(arr, k + 1)
    IN IF k > Len(arr) THEN <<>>
       ELSE push(parseGradientStop(Trim(arr[k]), k - 1, Len(arr)))

\* the end of parseLinearGradient without the check of stops.length
gradientOfAnyStops(angle, stops) ==
    [kind |-> "linear-gradient", angle |-> angle, stops |-> stops]

\* The end of parseLinearGradient: the gradient of the stops collected.
gradientOfStops(angle, stops) ==
    IF Len(stops) < 2 THEN Null
    ELSE [kind |-> "linear-gradient", angle |-> angle, stops |-> stops]

\* parseLinearGradient from const tokens on.
gradientOfTokens(tokens) ==
    LET hasAngle == \/ Includes(tokens[1], "deg")
                    \/ Includes(tokens[1], "rad")
                    \/ StartsWith(tokens[1], "to ")
    IN IF Len(tokens) = 0 THEN Null
       ELSE IF Len(tokens) - (IF hasAngle THEN 1 ELSE 0) < 2 THEN Null
       ELSE gradientOfStops(
              IF hasAngle THEN parseGradientAngle(tokens[1]) ELSE Num(180),
              CollectStops(SubSeq(tokens, IF hasAngle THEN 2 ELSE 1, Len(tokens)), 1))

\* The result is a LinearGradientFill or Null.
parseLinearGradient(value) ==
    LET inner(segment) == SubSeq(segment, IndexOf(segment, "(") + 1, Len(segment) - 1)
    IN IF ~extractLinearGradientSegment(value).ok THEN Null
       ELSE gradientOfTokens(
              splitGradientArgs(inner(extractLinearGradientSegment(value).segment)))

\* parseFill after its look at the background-image: gradient is what
\* parseLinearGradient returned, Null when it was not called.
fillOfGradient(style, gradient) ==
    LET solid(c) == [kind |-> "solid", color |-> c.color, opacity |-> c.opacity]
    IN IF gradient # Null THEN gradient
       ELSE IF /\ style.backgroundColor # ""
               /\ style.backgroundColor # "rgba(0, 0, 0, 0)"
               /\ style.backgroundColor # "transparent"
            THEN solid(parseColor(style.backgroundColor))
       ELSE Null

\* The result is a Fill or Null.
parseFill(style) ==
    fillOfGradient(style,
                   IF style.backgroundImage # "" /\ style.backgroundImage # "none"
                   THEN parseLinearGradient(style.backgroundImage)
                   ELSE Null)

(***************************************************************************)
(* Lengths, border radii, borders and box shadows                          *)
(***************************************************************************)
\* value.match(PX_REGEX):  /(-?\d+(?:\.\d+)?)px/
\* The one capture group runs from the start of the match to the unit.
PX_REGEX(s) ==
    Search(s, << <<Opt("-", FALSE), Run(Digits, 1, FALSE), Lit(".", FALSE),
                      Run(Digits, 1, FALSE), Lit("px", FALSE)>>,
                    <<Opt("-", FALSE), Run(Digits, 1, FALSE), Lit("px", FALSE)>> >>)

\* parsePx from const match on.
pxOfMatch(value, fallback, match) ==
    IF match.ok THEN ParseFloat(SubSeq(value, match.start, match.end - 3)).v
    ELSE clampNumber(ParseFloat(value), fallback)

parsePx(value, fallback) ==
    IF value = "" THEN fallback ELSE pxOfMatch(value, fallback, PX_REGEX(value))

parseBorderRadius(style) ==
    LET parseValue(value) == IF value # "" /\ value # "0px" THEN parsePx(value, 0) ELSE 0
        corners(v) == [topLeft |-> v[1], topRight |-> v[2],
                       bottomRight |-> v[3], bottomLeft |-> v[4]]
    IN corners([i \in 1..4 |->
                  (IF <<style.borderTopLeftRadius, style.borderTopRightRadius,
                        style.borderBottomRightRadius, style.borderBottomLeftRadius>>[i]
                        \in {"", "0px"}
                   THEN 0
                   ELSE parsePx(<<style.borderTopLeftRadius, style.borderTopRightRadius,
                                  style.borderBottomRightRadius,
                                  style.borderBottomLeftRadius>>[i], 0))])

defaultBorderSide == [width |-> 0, color |-> "#000000", opacity |-> Num(1), style |-> "solid"]

\* One turn of the forEach of parseBorders from const width on: the
\* BorderSide of a side, or Null when the side is dropped.
parseBorderSide(width, styleValue, colorValue) ==
    LET kept(c) ==
            [width |-> width, style |-> styleValue, color |-> c.color, opacity |-> c.opacity]
    IN IF width <= 0 \/ styleValue = "none" THEN Null
       ELSE kept(parseColor(colorValue))

\* The result is a BorderSet or Null.
parseBorders(style) ==
    LET orFallback(b) == IF b = Null THEN defaultBorderSide ELSE b
        borderSet(result) ==
            IF \A side \in DOMAIN result : result[side] = Null THEN Null
            ELSE [top |-> orFallback(result["Top"]), right |-> orFallback(result["Right"]),
                  bottom |-> orFallback(result["Bottom"]), left |-> orFallback(result["Left"])]
    IN borderSet([side \in {"Top", "Right", "Bottom", "Left"} |->
                    parseBorderSide(parsePx(style["border" \o side \o "Width"], 0),
                                    style["border" \o side \o "Style"],
                                    style["border" \o side \o "Color"])])

splitShadowValue(value) == SplitTopLevelCommas(value, 1)

LowerLetters ==
    {"a", "b", "c", "d", "e", "f", "g", "h", "i", "j", "k", "l", "m", "n", "o", "p", "q",
     "r", "s", "t", "u", "v", "w", "x", "y", "z"}

\* /(^|\s)inset(\s|$)/i tried at index i of s: the length matched, 0 if none.
InsetMatchAt(s, i) ==
    LET \* lead is 1 when the match starts with a white space, 0 at the start of s
        word(lead) ==
            IF (lead = 1 \/ i = 1) /\ StartsAtIgnoreCase(s, i + lead, "inset")
            THEN IF i + lead + 5 > Len(s) THEN lead + 5
                 ELSE IF Char(s, i + lead + 5) \in WhiteSpace THEN lead + 6
                 ELSE 0
            ELSE 0
    IN word(IF i <= Len(s) /\ Char(s, i) \in WhiteSpace THEN 1 ELSE 0)

\* /(^|\s)inset(\s|$)/i.test(value)
HasInset(value) == \E i \in 1..Len(value) : InsetMatchAt(value, i) > 0

\* value.replace(/(^|\s)inset(\s|$)/gi, ' ') from index i on
RECURSIVE ReplaceInset(_, _)
ReplaceInset(s, i) ==
    LET \* the next match starts at j
        replaced(j) == SubSeq(s, i, j - 1) \o " " \o ReplaceInset(s, j + InsetMatchAt(s, j))
    IN IF \E j \in i..Len(s) : InsetMatchAt(s, j) > 0
       THEN replaced(CHOOSE j \in i..Len(s) :
                         /\ InsetMatchAt(s, j) > 0
                         /\ \A k \in i..(j - 1) : InsetMatchAt(s, k) = 0)
       ELSE SubSeq(s, i, Len(s))

\* SHADOW_COLOR_REGEX tried at index p of s:
\*   /(rgba?\([^)]*\)|hsla?\([^)]*\)|#[0-9a-f]{3,8}|[a-z]+)$/i
ShadowColorMatchAt(s, p) ==
    LET \* the parenthesis at q opens and the next closing one ends s
        call(q) == StartsAt(s, q, "(") /\ IndexOfFrom(s, ")", q + 1) = Len(s)
    IN \/ /\ \E name \in {"rgb", "hsl"} : StartsAtIgnoreCase(s, p, name)
          /\ call(IF StartsAtIgnoreCase(s, p + 3, "a") THEN p + 4 ELSE p + 3)
       \/ /\ StartsAt(s, p, "#")
          /\ Len(s) - p \in 3..8
          /\ SkipWhile(s, p + 1, HexChars) = Len(s) + 1
       \/ /\ p <= Len(s)
          /\ SkipWhile(ToLower(SubSeq(s, p, Len(s))), 1, LowerLetters) = Len(s) - p + 2

\* cleaned.match(SHADOW_COLOR_REGEX): the index (1-based) of the leftmost
\* match, 0 when there is none.
SHADOW_COLOR_REGEX(s) ==
    IF \E p \in 1..Len(s) : ShadowColorMatchAt(s, p)
    THEN CHOOSE p \in 1..Len(s) :
             /\ ShadowColorMatchAt(s, p)
             /\ \A k \in 1..(p - 1) : ~ShadowColorMatchAt(s, k)
    ELSE 0

\* parseSingleShadow from const tokens on.
shadowOfTokens(inset, tokens, colorToken) ==
    LET \* px: offsetX, offsetY, blur, spread, the last two '0px' when absent
        shadow(px, c) ==
            [inset |-> inset,
             offsetX |-> px[1],
             offsetY |-> px[2],
             blur |-> Max2(0, px[3]),
             spread |-> px[4],
             color |-> c.color,
             opacity |-> c.opacity]
    IN IF Len(tokens) < 2 THEN Null
       ELSE shadow([i \in 1..4 |-> parsePx(IF i <= Len(tokens) THEN tokens[i] ELSE "0px", 0)],
                   parseColor(colorToken))

\* parseSingleShadow from const cleaned on.
shadowOfCleaned(inset, cleaned) ==
    LET \* index is where the colour starts in cleaned, 0 when there is none
        located(index) ==
            shadowOfTokens(inset,
                           SplitWhiteSpace(IF index # 0 THEN Trim(SubSeq(cleaned, 1, index - 1))
                                           ELSE cleaned),
                           IF index # 0 THEN SubSeq(cleaned, index, Len(cleaned))
                           ELSE "rgba(0, 0, 0, 0.25)")
    IN located(SHADOW_COLOR_REGEX(cleaned))

\* The result is a BoxShadow or Null.
parseSingleShadow(value) ==
    IF value = "" THEN Null
    ELSE shadowOfCleaned(HasInset(value), Trim(ReplaceInset(value, 1)))

RECURSIVE ParseShadowList(_)
ParseShadowList(shadowStrings) ==
    LET push(parsed) ==
            (IF parsed = Null THEN <<>> ELSE <<parsed>>) \o ParseShadowList(Tail(shadowStrings))
    IN IF shadowStrings = <<>> THEN <<>>
       ELSE push(parseSingleShadow(Trim(Head(shadowStrings))))

parseBoxShadows(style) ==
    IF style.boxShadow = "" \/ style.boxShadow = "none" THEN <<>>
    ELSE ParseShadowList(splitShadowValue(style.boxShadow))

(***************************************************************************)
(* Number formatting and the rounded-rectangle path                        *)
(***************************************************************************)
\* Math.round((value + Number.EPSILON) * 1000): the nearest thousandth, a
\* tie going up.
RoundMilli(value) == (value + MILLI \div 2) \div MILLI

\* The three fraction digits of toFixed(3) with the trailing zeros removed.
FractionDigits(f) ==
    IF f % 10 # 0 THEN ToString(f \div 100) \o ToString((f \div 10) % 10) \o ToString(f % 10)
    ELSE IF (f \div 10) % 10 # 0 THEN ToString(f \div 100) \o ToString((f \div 10) % 10)
    ELSE ToString(f \div 100)

formatNumber(value) ==
    LET text(rounded) ==
            IF rounded % 1000 = 0 THEN ToString(rounded \div 1000)
            ELSE (IF rounded < 0 THEN "-" ELSE "")
                 \o ToString(Abs(rounded) \div 1000) \o "."
                 \o FractionDigits(Abs(rounded) % 1000)
    IN text(RoundMilli(value))

Min3(a, b, c) == Min2(a, Min2(b, c))

\* the radii clamped to half the width only
clampedRadiiByWidth(width, height, radii) ==
    [tl |-> Min2(radii.topLeft, width \div 2),
     tr |-> Min2(radii.topRight, width \div 2),
     br |-> Min2(radii.bottomRight, width \div 2),
     bl |-> Min2(radii.bottomLeft, width \div 2)]

\* The four radii roundedRectPath uses: tl, tr, br, bl.
clampedRadii(width, height, radii) ==
    [tl |-> Min3(radii.topLeft, width \div 2, height \div 2),
     tr |-> Min3(radii.topRight, width \div 2, height \div 2),
     br |-> Min3(radii.bottomRight, width \div 2, height \div 2),
     bl |-> Min3(radii.bottomLeft, width \div 2, height \div 2)]

\* the same numbers with the top-right radius on the whole right edge
roundedRectCoordsOneRight(x, y, width, height, radii) ==
    LET coords(c) ==
            << x + c.tl, y,
               x + width - c.tr,
               x + width, y, x + width, y + c.tr,
               y + height - c.tr,
               x + width, y + height, x + width - c.tr, y + height,
               x + c.bl,
               x, y + height, x, y + height - c.bl,
               y + c.tl,
               x, y, x + c.tl, y >>
    IN coords(clampedRadii(width, height, radii))

\* The numbers roundedRectPath hands to formatNumber, in path order.
roundedRectCoords(x, y, width, height, radii) ==
    LET coords(c) ==
            << x + c.tl, y,
               x + width - c.tr,
               x + width, y, x + width, y + c.tr,
               y + height - c.br,
               x + width, y + height, x + width - c.br, y + height,
               x + c.bl,
               x, y + height, x, y + height - c.bl,
               y + c.tl,
               x, y, x + c.tl, y >>
    IN coords(clampedRadii(width, height, radii))

roundedRectPath(x, y, width, height, radii) ==
    LET path(f) ==
            ("M " \o f[1] \o " " \o f[2])
            \o (" H " \o f[3])
            \o (" Q " \o f[4] \o " " \o f[5] \o " " \o f[6] \o " " \o f[7])
            \o (" V " \o f[8])
            \o (" Q " \o f[9] \o " " \o f[10] \o " " \o f[11] \o " " \o f[12])
            \o (" H " \o f[13])
            \o (" Q " \o f[14] \o " " \o f[15] \o " " \o f[16] \o " " \o f[17])
            \o (" V " \o f[18])
            \o (" Q " \o f[19] \o " " \o f[20] \o " " \o f[21] \o " " \o f[22])
            \o " Z"
    IN path([i \in 1..22 |-> formatNumber(roundedRectCoords(x, y, width, height, radii)[i])])

(***************************************************************************)
(* The styled element tree and its snapshot                                *)
(*                                                                         *)
(* An element handle is a record [kind |-> "element", key, tagName, id,    *)
(* className, rect, style, childNodes]: rect is what getBoundingClientRect *)
(* returns, style what getComputedStyle returns, childNodes the text nodes *)
(* and elements below it in document order.  A text node is [kind |->      *)
(* "text", textContent, rects], rects[i] being the rectangle a Range over  *)
(* its i-th character measures.  key names the element (it is not read by  *)
(* the program); every node of the snapshot carries the key of the element *)
(* it was made from in origin.                                             *)
(***************************************************************************)
IGNORED_TAGS == {"SCRIPT", "STYLE", "META", "TITLE", "LINK", "NOSCRIPT"}

MATERIAL_SYMBOLS_PATHS ==
    [name \in {"dashboard", "calendar_month", "bed", "bar_chart", "settings", "help_center", "logout", "search", "expand_more", "add", "edit", "content_copy", "delete", "chevron_left", "chevron_right"} |->
       [viewBox |-> "0 0 24 24",
        path |->
          CASE name = "dashboard" ->
                 "M13 9V3h8v6h-8zm-2 0H3V3h8v6zm2 2h8v10h-8V11zm-2 0v10H3V11h8z"
            [] name = "calendar_month" ->
                 "M9 11H7v2h2v-2zm4 0h-2v2h2v-2zm4 0h-2v2h2v-2zm2-7h-1V2h-2v2H8V2H6v2H5c-1.11 0-1.99.9-1.99 2L3 20c0 1.1.89 2 2 2h14c1.1 0 2-.9 2-2V6c0-1.1-.9-2-2-2zm0 16H5V9h14v11z"
            [] name = "bed" ->
                 "M7 13c1.66 0 3-1.34 3-3S8.66 7 7 7s-3 1.34-3 3 1.34 3 3 3zm12-6h-8v7H3V5H1v15h2v-3h18v3h2v-9c0-2.21-1.79-4-4-4z"
            [] name = "bar_chart" ->
                 "M5 9.2h3V19H5V9.2zM10.6 5h2.8v14h-2.8V5zm5.6 8H19v6h-2.8v-6z"
            [] name = "settings" ->
                 "M19.14 12.94c.04-.3.06-.61.06-.94 0-.32-.02-.64-.07-.94l2.03-1.58c.18-.14.23-.41.12-.61l-1.92-3.32c-.12-.22-.37-.29-.59-.22l-2.39.96c-.5-.38-1.03-.7-1.62-.94l-.36-2.54c-.04-.24-.24-.41-.48-.41h-3.84c-.24 0-.43.17-.47.41l-.36 2.54c-.59.24-1.13.57-1.62.94l-2.39-.96c-.22-.08-.47 0-.59.22L2.74 8.87c-.12.21-.08.47.12.61l2.03 1.58c-.05.3-.09.63-.09.94s.02.64.07.94l-2.03 1.58c-.18.14-.23.41-.12.61l1.92 3.32c.12.22.37.29.59.22l2.39-.96c.5.38 1.03.7 1.62.94l.36 2.54c.05.24.24.41.48.41h3.84c.24 0 .44-.17.47-.41l.36-2.54c.59-.24 1.13-.56 1.62-.94l2.39.96c.22.08.47 0 .59-.22l1.92-3.32c.12-.22.07-.47-.12-.61l-2.01-1.58zM12 15.6c-1.98 0-3.6-1.62-3.6-3.6s1.62-3.6 3.6-3.6 3.6 1.62 3.6 3.6-1.62 3.6-3.6 3.6z"
            [] name = "help_center" ->
                 "M19 3H5c-1.1 0-2 .9-2 2v14c0 1.1.9 2 2 2h14c1.1 0 2-.9 2-2V5c0-1.1-.9-2-2-2zm-7 15h-2v-2h2v2zm1.07-7.75l-.9.92C11.45 11.9 11 12.5 11 14h-2v-.5c0-1.1.45-2.1 1.17-2.83l1.24-1.26c.37-.36.59-.86.59-1.41 0-1.1-.9-2-2-2s-2 .9-2 2H6c0-2.21 1.79-4 4-4s4 1.79 4 4c0 .88-.36 1.68-.93 2.25z"
            [] name = "logout" ->
                 "M17 7l-1.41 1.41L18.17 11H8v2h10.17l-2.58 2.58L17 17l5-5zM4 5h8V3H4c-1.1 0-2 .9-2 2v14c0 1.1.9 2 2 2h8v-2H4V5z"
            [] name = "search" ->
                 "M15.5 14h-.79l-.28-.27C15.41 12.59 16 11.11 16 9.5 16 5.91 13.09 3 9.5 3S3 5.91 3 9.5 5.91 16 9.5 16c1.61 0 3.09-.59 4.23-1.57l.27.28v.79l5 4.99L20.49 19l-4.99-5zm-6 0C7.01 14 5 11.99 5 9.5S7.01 5 9.5 5 14 7.01 14 9.5 11.99 14 9.5 14z"
            [] name = "expand_more" ->
                 "M16.59 8.59L12 13.17 7.41 8.59 6 10l6 6 6-6z"
            [] name = "add" ->
                 "M19 13h-6v6h-2v-6H5v-2h6V5h2v6h6v2z"
            [] name = "edit" ->
                 "M3 17.25V21h3.75L17.81 9.94l-3.75-3.75L3 17.25zM20.71 7.04c.39-.39.39-1.02 0-1.41l-2.34-2.34c-.39-.39-1.02-.39-1.41 0l-1.83 1.83 3.75 3.75 1.83-1.83z"
            [] name = "content_copy" ->
                 "M16 1H4c-1.1 0-2 .9-2 2v14h2V3h12V1zm3 4H8c-1.1 0-2 .9-2 2v14c0 1.1.9 2 2 2h11c1.1 0 2-.9 2-2V7c0-1.1-.9-2-2-2zm0 16H8V7h11v14z"
            [] name = "delete" ->
                 "M6 19c0 1.1.9 2 2 2h8c1.1 0 2-.9 2-2V7H6v12zM19 4h-3.5l-1-1h-5l-1 1H5v2h14V4z"
            [] name = "chevron_left" ->
                 "M15.41 7.41L14 6l-6 6 6 6 1.41-1.41L10.83 12z"
            [] name = "chevron_right" ->
                 "M10 6L8.59 7.41 13.17 12l-4.58 4.59L10 18l6-6z"]]

\* the zero-size test looking at the width only
hasNoWidth(rect) == rect.width = 0

\* rect.width === 0 || rect.height === 0 of createNodeFromElement and
\* createIconNode
hasNoLayout(rect) == rect.width = 0 \/ rect.height = 0

isRenderable(style) ==
    LET positive(opacity) == ~opacity.nan /\ opacity.v > 0
    IN IF style.display = "none" THEN FALSE
       ELSE IF style.visibility = "hidden" \/ style.visibility = "collapse" THEN FALSE
       ELSE positive(ParseFloat(style.opacity))

\* Node.textContent
RECURSIVE textContent(_)
RECURSIVE TextContentOfAll(_)
TextContentOfAll(childNodes) ==
    IF childNodes = <<>> THEN ""
    ELSE textContent(Head(childNodes)) \o TextContentOfAll(Tail(childNodes))

textContent(node) ==
    IF node.kind = "text" THEN node.textContent ELSE TextContentOfAll(node.childNodes)

\* element.classList.contains(name)
ClassListContains(element, name) ==
    LET contains(classList) == \E i \in DOMAIN classList : classList[i] = name
    IN contains(SplitWhiteSpace(element.className))

\* value.split(','): the pieces of s from index from on
RECURSIVE SplitCommas(_, _)
SplitCommas(s, from) ==
    IF IndexOfFrom(s, ",", from) = 0 THEN <<SubSeq(s, from, Len(s))>>
    ELSE <<SubSeq(s, from, IndexOfFrom(s, ",", from) - 1)>>
         \o SplitCommas(s, IndexOfFrom(s, ",", from) + 1)

sanitizeFontFamily(value) ==
    LET joined(families) ==
            JoinWith([i \in 1..Len(families) |-> ReplaceChars(Trim(families[i]), [c \in {"\"", "'"} |-> ""])], ", ")
    IN IF value = "" THEN "sans-serif" ELSE joined(SplitCommas(value, 1))

\* a product of two numbers of the model, for factors up to a few hundred
MulCoarse(a, b) == (((a \div MILLI) * (b \div MILLI)) \div 1000) * MILLI

parseLineHeight(value, fontSize) ==
    LET \* numeric is parseFloat(value)
        lineHeight(numeric) ==
            IF value = "" \/ value = "normal" THEN (fontSize * 6) \div 5
            ELSE IF EndsWith(value, "%") THEN MulCoarse(numeric.v \div 100, fontSize)
            ELSE IF EndsWith(value, "px") THEN parsePx(value, fontSize)
            ELSE IF ~numeric.nan THEN MulCoarse(numeric.v, fontSize)
            ELSE (fontSize * 6) \div 5
    IN lineHeight(ParseFloat(value))

toTextAnchor(textAlign) ==
    CASE textAlign = "center" -> "middle"
      [] textAlign \in {"right", "end"} -> "end"
      [] OTHER -> "start"

\* commitLine(endExclusive) of splitTextByVisualLines, on the loop state st
commitLine(content, st, endExclusive) ==
    IF endExclusive > st.lineStart /\ st.started
    THEN Append(st.segments,
                [text |-> SubSeq(content, st.lineStart + 1, endExclusive),
                 rect |-> [left |-> st.aggLeft, top |-> st.aggTop,
                           right |-> st.aggRight, bottom |-> st.aggBottom,
                           width |-> Max2(0, st.aggRight - st.aggLeft),
                           height |-> Max2(0, st.aggBottom - st.aggTop)]])
    ELSE st.segments

\* The loop state of splitTextByVisualLines when a line starts with the
\* character i (0-based) measured as rect.
lineStartedAt(st, i, rect) ==
    [st EXCEPT !.started = TRUE, !.currentTop = rect.top, !.lineStart = i,
               !.aggLeft = rect.left, !.aggTop = rect.top,
               !.aggRight = rect.left + rect.width, !.aggBottom = rect.top + rect.height]

\* The for loop of splitTextByVisualLines from character i (0-based) on.
\* started tells that currentTop is set and the aggregate is finite.
RECURSIVE SplitLoop(_, _, _)

\* the loop with the characters of no area measured like the others
SplitLoopMeasuringAll(textNode, i, st) ==
    LET step(rect) ==
            IF ~st.started THEN SplitLoop(textNode, i + 1, lineStartedAt(st, i, rect))
            ELSE IF Abs(rect.top - st.currentTop) > SCALE \div 2
                 THEN SplitLoop(textNode, i + 1,
                                [lineStartedAt(st, i, rect) EXCEPT
                                   !.segments = commitLine(textNode.textContent, st, i)])
            ELSE SplitLoop(textNode, i + 1,
                           [st EXCEPT !.aggLeft = Min2(st.aggLeft, rect.left),
                                      !.aggTop = Min2(st.aggTop, rect.top),
                                      !.aggRight = Max2(st.aggRight, rect.left + rect.width),
                                      !.aggBottom = Max2(st.aggBottom, rect.top + rect.height)])
    IN IF i >= Len(textNode.textContent)
       THEN commitLine(textNode.textContent, st, Len(textNode.textContent))
       ELSE step(textNode.rects[i + 1])

SplitLoop(textNode, i, st) ==
    LET step(rect) ==
            IF rect.width = 0 \/ rect.height = 0 THEN SplitLoop(textNode, i + 1, st)
            ELSE IF ~st.started THEN SplitLoop(textNode, i + 1, lineStartedAt(st, i, rect))
            ELSE IF Abs(rect.top - st.currentTop) > SCALE \div 2
                 THEN SplitLoop(textNode, i + 1,
                                [lineStartedAt(st, i, rect) EXCEPT
                                   !.segments = commitLine(textNode.textContent, st, i)])
            ELSE SplitLoop(textNode, i + 1,
                           [st EXCEPT !.aggLeft = Min2(st.aggLeft, rect.left),
                                      !.aggTop = Min2(st.aggTop, rect.top),
                                      !.aggRight = Max2(st.aggRight, rect.left + rect.width),
                                      !.aggBottom = Max2(st.aggBottom, rect.top + rect.height)])
    IN IF i >= Len(textNode.textContent)
       THEN commitLine(textNode.textContent, st, Len(textNode.textContent))
       ELSE step(textNode.rects[i + 1])

splitTextByVisualLines(textNode) ==
    IF textNode.textContent = "" THEN <<>>
    ELSE SplitLoop(textNode, 0,
                   [started |-> FALSE, currentTop |-> 0, lineStart |-> 0,
                    aggLeft |-> 0, aggTop |-> 0, aggRight |-> 0, aggBottom |-> 0,
                    segments |-> <<>>])

\* The TextNode collectTextNodes pushes for a line segment.
textNodeOfLine(line, element, rootRect, opacity, text, counter) ==
    [id |-> "text-" \o ToString(counter),
     kind |-> "text",
     tagName |-> ToLower(element.tagName),
     x |-> IF text.textAnchor = "middle"
           THEN line.rect.left - rootRect.left + line.rect.width \div 2
           ELSE IF text.textAnchor = "end" THEN line.rect.right - rootRect.left
           ELSE line.rect.left - rootRect.left,
     y |-> line.rect.top - rootRect.top
           + ((line.rect.height - text.fontSize) \div 2 + (text.fontSize * 17) \div 20),
     width |-> line.rect.width,
     height |-> line.rect.height,
     opacity |-> opacity,
     className |-> element.className,
     text |-> [text EXCEPT !.content = line.text],
     children |-> <<>>,
     origin |-> element.key]

\* The forEach over lineSegments in collectTextNodes: the TextNodes of the
\* segments from position k on, ids counted from counter.  opacity is the
\* opacity of the element, text the text style computed for the text node.
RECURSIVE TextNodesOfSegments(_, _, _, _, _, _, _)
TextNodesOfSegments(lineSegments, k, element, rootRect, opacity, text, counter) ==
    LET prepend(node, rest) == [nodes |-> <<node>> \o rest.nodes, counter |-> rest.counter]
    IN IF k > Len(lineSegments) THEN [nodes |-> <<>>, counter |-> counter]
       ELSE IF \/ Trim(lineSegments[k].text) = ""
               \/ lineSegments[k].rect.width = 0
               \/ lineSegments[k].rect.height = 0
            THEN TextNodesOfSegments(lineSegments, k + 1, element, rootRect, opacity, text,
                                     counter)
       ELSE prepend(textNodeOfLine(lineSegments[k], element, rootRect, opacity, text, counter),
                    TextNodesOfSegments(lineSegments, k + 1, element, rootRect, opacity, text,
                                        counter + 1))

\* The text style collectTextNodes computes for a text node; c is
\* parseColor(style.color), fontSize is parsePx(style.fontSize, 16).
textStyle(style, c, fontSize) ==
    [content |-> "",
     color |-> c.color,
     opacity |-> c.opacity,
     fontFamily |-> sanitizeFontFamily(style.fontFamily),
     fontSize |-> fontSize,
     fontWeight |-> style.fontWeight,
     fontStyle |-> style.fontStyle,
     letterSpacing |-> IF style.letterSpacing = "normal" THEN 0
                       ELSE parsePx(style.letterSpacing, 0),
     lineHeight |-> parseLineHeight(style.lineHeight, fontSize),
     textAnchor |-> toTextAnchor(style.textAlign)]

\* The forEach over element.childNodes in collectTextNodes, from position k.
RECURSIVE CollectFrom(_, _, _, _, _)
CollectFrom(element, k, style, rootRect, counter) ==
    LET prepend(lines, rest) ==
            [nodes |-> lines.nodes \o rest.nodes, counter |-> rest.counter]
        pushed(lines) ==
            prepend(lines, CollectFrom(element, k + 1, style, rootRect, lines.counter))
    IN IF k > Len(element.childNodes) THEN [nodes |-> <<>>, counter |-> counter]
       ELSE IF \/ element.childNodes[k].kind # "text"
               \/ Trim(element.childNodes[k].textContent) = ""
            THEN CollectFrom(element, k + 1, style, rootRect, counter)
       ELSE pushed(TextNodesOfSegments(
                     splitTextByVisualLines(element.childNodes[k]), 1, element, rootRect,
                     clampNumber(ParseFloat(style.opacity), Num(1)),
                     textStyle(style, parseColor(style.color), parsePx(style.fontSize, Num(16))),
                     counter))

\* The result is [nodes, counter]: the TextNodes and nodeCounter afterwards.
collectTextNodes(element, style, rootRect, counter) ==
    CollectFrom(element, 1, style, rootRect, counter)

\* a lookup that answers for every name
iconDataOrDefault(iconName) ==
    IF iconName \in DOMAIN MATERIAL_SYMBOLS_PATHS THEN MATERIAL_SYMBOLS_PATHS[iconName]
    ELSE MATERIAL_SYMBOLS_PATHS["help_center"]

\* MATERIAL_SYMBOLS_PATHS[iconName], Null when the name is no key
iconDataOf(iconName) ==
    IF iconName \in DOMAIN MATERIAL_SYMBOLS_PATHS THEN MATERIAL_SYMBOLS_PATHS[iconName]
    ELSE Null

\* createIconNode from const iconData on.
iconNodeOf(element, style, rootRect, counter, iconName, iconData) ==
    IF iconData = Null THEN [node |-> Null, counter |-> counter]
    ELSE IF hasNoLayout(element.rect) THEN [node |-> Null, counter |-> counter]
    ELSE [node |-> [id |-> "icon-" \o ToString(counter),
                    kind |-> "icon",
                    tagName |-> ToLower(element.tagName),
                    x |-> element.rect.left - rootRect.left,
                    y |-> element.rect.top - rootRect.top,
                    width |-> element.rect.width,
                    height |-> element.rect.height,
                    opacity |-> clampNumber(ParseFloat(style.opacity), Num(1)),
                    className |-> element.className,
                    iconName |-> iconName,
                    color |-> parseColor(style.color).color,
                    svgPath |-> iconData.path,
                    viewBox |-> iconData.viewBox,
                    children |-> <<>>,
                    origin |-> element.key],
          counter |-> counter + 1]

\* The result is [node, counter]: an IconNode or Null, and nodeCounter afterwards.
createIconNode(element, style, rootRect, counter) ==
    iconNodeOf(element, style, rootRect, counter, Trim(textContent(element)),
               iconDataOf(Trim(textContent(element))))

\* The result is [node, counter, calls]: a BoxNode, an IconNode or Null,
\* nodeCounter afterwards, and the number of elements measured.
RECURSIVE createNodeFromElement(_, _, _, _)
RECURSIVE SnapshotChildren(_, _, _, _, _)
RECURSIVE boxNodeOf(_, _, _, _, _)

\* the children captured with the visibility flag off, whatever the flag is
SnapshotChildrenStrict(childNodes, k, rootRect, allowHidden, counter) ==
    LET prepend(childNode, rest) ==
            [nodes |-> (IF childNode.node = Null THEN <<>> ELSE <<childNode.node>>) \o rest.nodes,
             counter |-> rest.counter,
             calls |-> childNode.calls + rest.calls]
        pushed(childNode) ==
            prepend(childNode,
                    SnapshotChildren(childNodes, k + 1, rootRect, allowHidden, childNode.counter))
    IN IF k > Len(childNodes) THEN [nodes |-> <<>>, counter |-> counter, calls |-> 0]
       ELSE IF \/ childNodes[k].kind # "element"
               \/ childNodes[k].tagName \in IGNORED_TAGS
            THEN SnapshotChildren(childNodes, k + 1, rootRect, allowHidden, counter)
       ELSE pushed(createNodeFromElement(childNodes[k], rootRect, FALSE, counter))

\* The forEach over element.children in createNodeFromElement, from position k.
SnapshotChildren(childNodes, k, rootRect, allowHidden, counter) ==
    LET prepend(childNode, rest) ==
            [nodes |-> (IF childNode.node = Null THEN <<>> ELSE <<childNode.node>>) \o rest.nodes,
             counter |-> rest.counter,
             calls |-> childNode.calls + rest.calls]
        pushed(childNode) ==
            prepend(childNode,
                    SnapshotChildren(childNodes, k + 1, rootRect, allowHidden, childNode.counter))
    IN IF k > Len(childNodes) THEN [nodes |-> <<>>, counter |-> counter, calls |-> 0]
       ELSE IF \/ childNodes[k].kind # "element"
               \/ childNodes[k].tagName \in IGNORED_TAGS
            THEN SnapshotChildren(childNodes, k + 1, rootRect, allowHidden, counter)
       ELSE pushed(createNodeFromElement(childNodes[k], rootRect, allowHidden, counter))

\* the box with its element children placed relative to the box itself
boxNodeOfParentRelative(element, rootRect, allowHidden, counter, texts) ==
    LET box(kids) ==
            [node |-> [id |-> IF element.id # "" THEN element.id
                              ELSE ToLower(element.tagName) \o "-" \o ToString(counter),
                       kind |-> "box",
                       tagName |-> ToLower(element.tagName),
                       x |-> element.rect.left - rootRect.left,
                       y |-> element.rect.top - rootRect.top,
                       width |-> element.rect.width,
                       height |-> element.rect.height,
                       opacity |-> clampNumber(ParseFloat(element.style.opacity), Num(1)),
                       className |-> element.className,
                       background |-> parseFill(element.style),
                       borderRadius |-> parseBorderRadius(element.style),
                       borders |-> parseBorders(element.style),
                       shadows |-> parseBoxShadows(element.style),
                       overflowHidden |-> \/ element.style.overflow = "hidden"
                                          \/ element.style.overflowX = "hidden"
                                          \/ element.style.overflowY = "hidden",
                       children |-> texts.nodes \o kids.nodes,
                       origin |-> element.key],
             counter |-> kids.counter,
             calls |-> 1 + kids.calls]
    IN box(SnapshotChildren(element.childNodes, 1, element.rect, allowHidden, texts.counter))

\* the box with the nodes of its element children ahead of its texts
boxNodeOfElementsFirst(element, rootRect, allowHidden, counter, texts) ==
    LET box(kids) ==
            [node |-> [id |-> IF element.id # "" THEN element.id
                              ELSE ToLower(element.tagName) \o "-" \o ToString(counter),
                       kind |-> "box",
                       tagName |-> ToLower(element.tagName),
                       x |-> element.rect.left - rootRect.left,
                       y |-> element.rect.top - rootRect.top,
                       width |-> element.rect.width,
                       height |-> element.rect.height,
                       opacity |-> clampNumber(ParseFloat(element.style.opacity), Num(1)),
                       className |-> element.className,
                       background |-> parseFill(element.style),
                       borderRadius |-> parseBorderRadius(element.style),
                       borders |-> parseBorders(element.style),
                       shadows |-> parseBoxShadows(element.style),
                       overflowHidden |-> \/ element.style.overflow = "hidden"
                                          \/ element.style.overflowX = "hidden"
                                          \/ element.style.overflowY = "hidden",
                       children |-> kids.nodes \o texts.nodes,
                       origin |-> element.key],
             counter |-> kids.counter,
             calls |-> 1 + kids.calls]
    IN box(SnapshotChildren(element.childNodes, 1, rootRect, allowHidden, texts.counter))

\* createNodeFromElement from const id on: counter is nodeCounter when the
\* element was reached, texts is what collectTextNodes returned.
boxNodeOf(element, rootRect, allowHidden, counter, texts) ==
    LET box(kids) ==
            [node |-> [id |-> IF element.id # "" THEN element.id
                              ELSE ToLower(element.tagName) \o "-" \o ToString(counter),
                       kind |-> "box",
                       tagName |-> ToLower(element.tagName),
                       x |-> element.rect.left - rootRect.left,
                       y |-> element.rect.top - rootRect.top,
                       width |-> element.rect.width,
                       height |-> element.rect.height,
                       opacity |-> clampNumber(ParseFloat(element.style.opacity), Num(1)),
                       className |-> element.className,
                       background |-> parseFill(element.style),
                       borderRadius |-> parseBorderRadius(element.style),
                       borders |-> parseBorders(element.style),
                       shadows |-> parseBoxShadows(element.style),
                       overflowHidden |-> \/ element.style.overflow = "hidden"
                                          \/ element.style.overflowX = "hidden"
                                          \/ element.style.overflowY = "hidden",
                       children |-> texts.nodes \o kids.nodes,
                       origin |-> element.key],
             counter |-> kids.counter,
             calls |-> 1 + kids.calls]
    IN box(SnapshotChildren(element.childNodes, 1, rootRect, allowHidden, texts.counter))

createNodeFromElement(element, rootRect, allowHidden, counter) ==
    LET ofIcon(icon) == [node |-> icon.node, counter |-> icon.counter, calls |-> 1]
    IN IF hasNoLayout(element.rect) THEN [node |-> Null, counter |-> counter, calls |-> 1]
       ELSE IF ~allowHidden /\ ~isRenderable(element.style)
            THEN [node |-> Null, counter |-> counter, calls |-> 1]
       ELSE IF ClassListContains(element, "material-symbols-outlined")
            THEN ofIcon(createIconNode(element, element.style, rootRect, counter))
       ELSE boxNodeOf(element, rootRect, allowHidden, counter,
                      collectTextNodes(element, element.style, rootRect,
                                       IF element.id # "" THEN counter ELSE counter + 1))

(***************************************************************************)
(* The document emitter                                                    *)
(*                                                                         *)
(* A RenderContext is [defs, gradientIndex, filterIndex].  The functions   *)
(* that take the context return it, as changed, next to their result.      *)
(***************************************************************************)
escapeAttribute(value) ==
    ReplaceChars(ReplaceChars(value, [c \in {"&"} |-> "&amp;"]), [c \in {"\""} |-> "&quot;"])

escapeText(value) ==
    ReplaceChars(ReplaceChars(ReplaceChars(value, [c \in {"&"} |-> "&amp;"]),
                              [c \in {"<"} |-> "&lt;"]),
                 [c \in {">"} |-> "&gt;"])

\* value.replace(/lit/g, by)
RECURSIVE ReplaceAll(_, _, _)
ReplaceAll(value, lit, by) ==
    IF IndexOf(value, lit) = 0 THEN value
    ELSE SubSeq(value, 1, IndexOf(value, lit) - 1) \o by
         \o ReplaceAll(SubSeq(value, IndexOf(value, lit) + Len(lit), Len(value)), lit, by)

\* The digits of n (0 <= n < 10^k) as k digits without the trailing zeros.
RECURSIVE TrimmedFraction(_, _)
TrimmedFraction(n, k) ==
    IF n = 0 \/ k = 0 THEN ""
    ELSE ToString(n \div (10 ^ (k - 1))) \o TrimmedFraction(n % (10 ^ (k - 1)), k - 1)

\* String(value) of a number with at most four fraction digits
JsNumber(value) ==
    LET text(tenThousandths) ==
            (IF value < 0 /\ tenThousandths # 0 THEN "-" ELSE "")
            \o ToString(tenThousandths \div 10000)
            \o (IF tenThousandths % 10000 = 0 THEN ""
                ELSE "." \o TrimmedFraction(tenThousandths % 10000, 4))
    IN text(Abs(value) \div (SCALE \div 10000))

\* `${Math.round(value * 10000) / 100}%`
formatPercentage(value) ==
    LET text(n) ==
            (IF n < 0 THEN "-" ELSE "")
            \o ToString(Abs(n) \div 100)
            \o (IF Abs(n) % 100 = 0 THEN "" ELSE "." \o TrimmedFraction(Abs(n) % 100, 2))
            \o "%"
    IN text((value + (SCALE \div 20000)) \div (SCALE \div 10000))

\* a * b for factors of at most a few units
MulNum(a, b) == (a * (b \div 1000) + (a * (b % 1000)) \div 1000) \div MILLI

createStyleDef(css) ==
    "<style type=\"text/css\"><![CDATA[" \o ReplaceAll(css, "]]>", "]]]]><![CDATA[>")
        \o "]]></style>"

applyAlpha(hexColor, alpha) ==
    IF StartsWith(hexColor, "#") /\ Len(hexColor) >= 7
    THEN "rgba(" \o ToString(ParseHex(SubSeq(hexColor, 2, 3), 0))
         \o ", " \o ToString(ParseHex(SubSeq(hexColor, 4, 5), 0))
         \o ", " \o ToString(ParseHex(SubSeq(hexColor, 6, 7), 0))
         \o ", " \o JsNumber(alpha) \o ")"
    ELSE hexColor

\* Math.cos and Math.sin of an angle in degrees, for the multiples of 45;
\* h is the square root of one half in units of 1/SCALE
CosSin(angle) ==
    LET of(a, h) ==
            CASE a = 0 -> [cos |-> SCALE, sin |-> 0]
              [] a = 45 -> [cos |-> h, sin |-> h]
              [] a = 90 -> [cos |-> 0, sin |-> SCALE]
              [] a = 135 -> [cos |-> -h, sin |-> h]
              [] a = 180 -> [cos |-> -SCALE, sin |-> 0]
              [] a = 225 -> [cos |-> -h, sin |-> -h]
              [] a = 270 -> [cos |-> 0, sin |-> -SCALE]
              [] a = 315 -> [cos |-> h, sin |-> -h]
              [] OTHER -> [cos |-> -SCALE, sin |-> 0]
    IN of((angle \div SCALE) % 360, 721249)

gradientVector(angle) ==
    LET vector(rad) ==
            [x1 |-> (SCALE - rad.cos) \div 2, y1 |-> (SCALE - rad.sin) \div 2,
             x2 |-> (SCALE + rad.cos) \div 2, y2 |-> (SCALE + rad.sin) \div 2]
    IN vector(CosSin(angle))

RECURSIVE GradientStopsMarkup(_)
GradientStopsMarkup(stops) ==
    IF stops = <<>> THEN ""
    ELSE ("<stop offset=\"" \o formatPercentage(Head(stops).offset))
         \o ("\" stop-color=\"" \o Head(stops).color)
         \o ("\" stop-opacity=\"" \o formatNumber(Head(stops).opacity) \o "\" />")
         \o GradientStopsMarkup(Tail(stops))

\* The <linearGradient> definition ensureGradient pushes under the given id.
gradientDef(id, gradient) ==
    LET def(v) ==
            ("<linearGradient id=\"" \o id \o "\" gradientUnits=\"objectBoundingBox\" x1=\""
             \o formatNumber(v.x1) \o "\" y1=\"" \o formatNumber(v.y1))
            \o ("\" x2=\"" \o formatNumber(v.x2) \o "\" y2=\"" \o formatNumber(v.y2) \o "\">")
            \o (GradientStopsMarkup(gradient.stops) \o "</linearGradient>")
    IN def(gradientVector(gradient.angle))

\* ensureGradient leaving gradientIndex as it was
ensureGradientSameIndex(gradient, context) ==
    [id |-> "gradient-" \o ToString(context.gradientIndex),
     context |-> [context EXCEPT
                    !.defs = Append(@, gradientDef("gradient-" \o ToString(context.gradientIndex),
                                                   gradient))]]

\* The result is [id, context].
ensureGradient(gradient, context) ==
    [id |-> "gradient-" \o ToString(context.gradientIndex),
     context |-> [context EXCEPT
                    !.gradientIndex = @ + 1,
                    !.defs = Append(@, gradientDef("gradient-" \o ToString(context.gradientIndex),
                                                   gradient))]]

\* The result is [attr, context].
resolveFill(fill, context) ==
    LET ofGradient(g) == [attr |-> "url(#" \o g.id \o ")", context |-> g.context]
    IN IF fill = Null THEN [attr |-> "transparent", context |-> context]
       ELSE IF fill.kind = "solid"
            THEN [attr |-> IF fill.opacity = Num(1) THEN fill.color
                           ELSE applyAlpha(fill.color, fill.opacity),
                  context |-> context]
       ELSE ofGradient(ensureGradient(fill, context))

\* a stroke whenever the widths agree
resolveStrokeByWidth(borders) ==
    LET stroke(sides) ==
            IF \E i \in 1..4 : sides[i].width # sides[1].width
            THEN ""
            ELSE IF sides[1].width = 0 THEN ""
            ELSE "stroke=\""
                 \o (IF sides[1].opacity = Num(1) THEN sides[1].color
                     ELSE applyAlpha(sides[1].color, sides[1].opacity))
                 \o "\" stroke-width=\"" \o formatNumber(sides[1].width)
                 \o "\" shape-rendering=\"geometricPrecision\""
    IN IF borders = Null THEN ""
       ELSE stroke(<<borders.top, borders.right, borders.bottom, borders.left>>)

resolveStroke(borders) ==
    LET stroke(sides) ==
            IF \/ \E i \in 1..4 : sides[i].width # sides[1].width
               \/ \E i \in 1..4 : sides[i].color # sides[1].color
               \/ \E i \in 1..4 : sides[i].opacity # sides[1].opacity
            THEN ""
            ELSE IF sides[1].width = 0 THEN ""
            ELSE "stroke=\""
                 \o (IF sides[1].opacity = Num(1) THEN sides[1].color
                     ELSE applyAlpha(sides[1].color, sides[1].opacity))
                 \o "\" stroke-width=\"" \o formatNumber(sides[1].width)
                 \o "\" shape-rendering=\"geometricPrecision\""
    IN IF borders = Null THEN ""
       ELSE stroke(<<borders.top, borders.right, borders.bottom, borders.left>>)

RECURSIVE DropShadowsMarkup(_)
DropShadowsMarkup(usable) ==
    IF usable = <<>> THEN ""
    ELSE ("<feDropShadow dx=\"" \o formatNumber(Head(usable).offsetX))
         \o ("\" dy=\"" \o formatNumber(Head(usable).offsetY))
         \o ("\" stdDeviation=\"" \o formatNumber(Max2(Head(usable).blur, 0) \div 2))
         \o ("\" flood-color=\"" \o Head(usable).color)
         \o ("\" flood-opacity=\"" \o formatNumber(Head(usable).opacity) \o "\" />")
         \o DropShadowsMarkup(Tail(usable))

\* resolveShadows leaving the filter as the only definition
resolveShadowsReplacing(shadows, context) ==
    LET pushed(usable, id) ==
            IF usable = <<>> THEN [id |-> "", context |-> context]
            ELSE [id |-> id,
                  context |-> [context EXCEPT
                                 !.filterIndex = @ + 1,
                                 !.defs = <<"<filter id=\"" \o id
                                     \o "\" x=\"-50%\" y=\"-50%\" width=\"200%\" height=\"200%\" color-interpolation-filters=\"sRGB\">"
                                     \o DropShadowsMarkup(usable) \o "</filter>">>]]
    IN pushed(SelectSeq(shadows, LAMBDA shadow : ~shadow.inset),
              "shadow-" \o ToString(context.filterIndex))

\* a filter of all the shadows, the inset ones too
resolveShadowsInsetToo(shadows, context) ==
    LET pushed(usable, id) ==
            IF usable = <<>> THEN [id |-> "", context |-> context]
            ELSE [id |-> id,
                  context |-> [context EXCEPT
                                 !.filterIndex = @ + 1,
                                 !.defs = Append(@, "<filter id=\"" \o id
                                     \o "\" x=\"-50%\" y=\"-50%\" width=\"200%\" height=\"200%\" color-interpolation-filters=\"sRGB\">"
                                     \o DropShadowsMarkup(usable) \o "</filter>")]]
    IN pushed(shadows, "shadow-" \o ToString(context.filterIndex))

\* The result is [id, context]; id is "" where the source returns null.
resolveShadows(shadows, context) ==
    LET pushed(usable, id) ==
            IF usable = <<>> THEN [id |-> "", context |-> context]
            ELSE [id |-> id,
                  context |-> [context EXCEPT
                                 !.filterIndex = @ + 1,
                                 !.defs = Append(@, "<filter id=\"" \o id
                                     \o "\" x=\"-50%\" y=\"-50%\" width=\"200%\" height=\"200%\" color-interpolation-filters=\"sRGB\">"
                                     \o DropShadowsMarkup(usable) \o "</filter>")]]
    IN pushed(SelectSeq(shadows, LAMBDA shadow : ~shadow.inset),
              "shadow-" \o ToString(context.filterIndex))

\* ensureClipPath taking an id and registering nothing under it
ensureClipPathUnregistered(node, context) ==
    [id |-> "clip-" \o ToString(context.filterIndex),
     context |-> [context EXCEPT !.filterIndex = @ + 1]]

\* The result is [id, context].
ensureClipPath(node, context) ==
    LET pushed(id, d) ==
            [id |-> id,
             context |-> [context EXCEPT
                            !.filterIndex = @ + 1,
                            !.defs = Append(@, "<clipPath id=\"" \o id
                                \o "\" clipPathUnits=\"userSpaceOnUse\"><path d=\""
                                \o d \o "\" /></clipPath>")]]
    IN pushed("clip-" \o ToString(context.filterIndex),
              roundedRectPath(node.x, node.y, node.width, node.height, node.borderRadius))

normalizeFontWeight(weight) ==
    LET attr(w) ==
            IF w \in {"100", "200", "300", "400", "500", "600", "700", "800", "900"}
            THEN "font-weight=\"" \o w \o "\""
            ELSE IF w = "bold" THEN "font-weight=\"700\""
            ELSE IF w = "normal" THEN "font-weight=\"400\""
            ELSE "font-weight=\"" \o escapeAttribute(weight) \o "\""
    IN attr(ToLower(Trim(weight)))

renderTextNode(node) ==
    LET markup(text, combinedOpacity) ==
            ("<text x=\"" \o formatNumber(node.x) \o "\" y=\"" \o formatNumber(node.y))
            \o ("\" font-family=\"" \o escapeAttribute(text.fontFamily))
            \o ("\" font-size=\"" \o formatNumber(text.fontSize) \o "\" ")
            \o normalizeFontWeight(text.fontWeight)
            \o (" font-style=\"" \o escapeAttribute(text.fontStyle))
            \o ("\" text-anchor=\"" \o text.textAnchor)
            \o ("\" dominant-baseline=\"alphabetic\" xml:space=\"preserve\" fill=\""
                \o text.color \o "\"")
            \o (IF combinedOpacity # Num(1)
                THEN " fill-opacity=\"" \o formatNumber(combinedOpacity) \o "\"" ELSE "")
            \o (IF text.letterSpacing # 0
                THEN " letter-spacing=\"" \o formatNumber(text.letterSpacing) \o "\"" ELSE "")
            \o (IF node.className # ""
                THEN " class=\"" \o escapeAttribute(node.className) \o "\"" ELSE "")
            \o (" data-tag=\"" \o escapeAttribute(node.tagName) \o "\"")
            \o (">" \o escapeText(text.content) \o "</text>")
    IN markup(node.text, MulNum(node.opacity, node.text.opacity))

\* viewBoxParts[i] || 24 of renderIconNode, i counted from 1
viewBoxPart(viewBoxParts, i) ==
    LET \* Number(part) || 24
        size(n) == IF ~n.nan /\ n.v # 0 THEN n.v \div SCALE ELSE 24
    IN IF Len(viewBoxParts) >= i THEN size(ParseFloat(viewBoxParts[i])) ELSE 24

renderIconNode(node) ==
    LET markup(origWidth, origHeight, scale) ==
            ("<g transform=\"translate("
             \o formatNumber(node.x + (node.width - origWidth * scale) \div 2) \o ","
             \o formatNumber(node.y + (node.height - origHeight * scale) \div 2))
            \o (") scale(" \o formatNumber(scale) \o ")\"")
            \o (IF node.opacity # Num(1)
                THEN " opacity=\"" \o formatNumber(node.opacity) \o "\"" ELSE "")
            \o (IF node.className # ""
                THEN " class=\"" \o escapeAttribute(node.className) \o "\"" ELSE "")
            \o (" data-tag=\"" \o escapeAttribute(node.tagName) \o "\"")
            \o (" data-icon=\"" \o escapeAttribute(node.iconName) \o "\"")
            \o ("><path d=\"" \o node.svgPath)
            \o ("\" fill=\"" \o node.color \o "\"/></g>")
        sized(origWidth, origHeight) ==
            markup(origWidth, origHeight,
                   Min2(node.width \div origWidth, node.height \div origHeight))
    IN sized(viewBoxPart(SplitWhiteSpace(node.viewBox), 3),
             viewBoxPart(SplitWhiteSpace(node.viewBox), 4))

\* The result is [markup, context].
RECURSIVE renderNode(_, _)
RECURSIVE RenderChildren(_, _, _)
RECURSIVE renderBoxNode(_, _)
RECURSIVE boxMarkup(_, _, _, _)

\* node.children.map((child) => renderNode(child, context)).join('')
RenderChildren(children, k, context) ==
    LET joined(first, rest) ==
            [markup |-> first.markup \o rest.markup, context |-> rest.context]
        mapped(first) == joined(first, RenderChildren(children, k + 1, first.context))
    IN IF k > Len(children) THEN [markup |-> "", context |-> context]
       ELSE mapped(renderNode(children[k], context))

\* renderBoxNode from const childrenContent on: fill, filter and clip are
\* what resolveFill, resolveShadows and ensureClipPath returned, clip
\* carrying the context they left.
boxMarkup(node, fill, filter, clip) ==
    LET markup(classAttr, kids) ==
            [markup |->
               "<g"
               \o (IF node.opacity # Num(1)
                   THEN " opacity=\"" \o formatNumber(node.opacity) \o "\"" ELSE "")
               \o classAttr
               \o (" data-tag=\"" \o escapeAttribute(node.tagName) \o "\"")
               \o (IF clip.id # "" THEN " clip-path=\"url(#" \o clip.id \o ")\"" ELSE "")
               \o (">" \o "<path d=\""
                   \o roundedRectPath(node.x, node.y, node.width, node.height,
                                      node.borderRadius))
               \o ("\" fill=\"" \o fill.attr \o "\"")
               \o (IF resolveStroke(node.borders) # ""
                   THEN " " \o resolveStroke(node.borders) ELSE "")
               \o (IF filter.id # "" THEN " filter=\"url(#" \o filter.id \o ")\"" ELSE "")
               \o (classAttr \o " />")
               \o (kids.markup \o "</g>"),
             context |-> kids.context]
    IN markup(IF node.className # ""
              THEN " class=\"" \o escapeAttribute(node.className) \o "\"" ELSE "",
              RenderChildren(node.children, 1, clip.context))

\* renderBoxNode from const clipId on.
boxClipped(node, fill, filter) ==
    boxMarkup(node, fill, filter,
              IF node.overflowHidden THEN ensureClipPath(node, filter.context)
              ELSE [id |-> "", context |-> filter.context])

\* renderBoxNode from const filterAttr on.
boxFiltered(node, fill) == boxClipped(node, fill, resolveShadows(node.shadows, fill.context))

renderBoxNode(node, context) == boxFiltered(node, resolveFill(node.background, context))

renderNode(node, context) ==
    IF node.kind = "text" THEN [markup |-> renderTextNode(node), context |-> context]
    ELSE IF node.kind = "icon" THEN [markup |-> renderIconNode(node), context |-> context]
    ELSE renderBoxNode(node, context)

(***************************************************************************)
(* The entry point                                                         *)
(***************************************************************************)
\* a context whose counters carry on from the process-wide nodeCounter
newRenderContextShared == [defs |-> <<>>, gradientIndex |-> nodeCounter, filterIndex |-> nodeCounter]

\* const context: RenderContext = { defs: [], gradientIndex: 0, filterIndex: 0 }
newRenderContext == [defs |-> <<>>, gradientIndex |-> 0, filterIndex |-> 0]

\* the root snapshot with the default allowHidden = false
captureRootStrict(rootElement, rootRect, counter) ==
    createNodeFromElement(rootElement, rootRect, FALSE, counter)

\* createNodeFromElement(rootElement, rootRect, true)
captureRoot(rootElement, rootRect, counter) ==
    createNodeFromElement(rootElement, rootRect, TRUE, counter)

\* a test of the root's measured size that lets every root pass
rootAlwaysMeasurable(rootRect) == FALSE

\* rootRect.width === 0 || rootRect.height === 0 of htmlToSvg
rootHasNoLayout(rootRect) == rootRect.width = 0 \/ rootRect.height = 0

\* What htmlToSvg leaves when it throws: snap is the snapshot taken so far.
thrown(message, snap) ==
    [threw |-> TRUE, value |-> message, counter |-> snap.counter,
     simpleTree |-> snap.node, context |-> newRenderContext, calls |-> snap.calls]

\* the document with a definitions section for the style and one for the rest
svgDocumentTwoSections(width, height, defsEntries, content) ==
    ("<?xml version=\"1.0\" encoding=\"UTF-8\"?><svg xmlns=\"http://www.w3.org/2000/svg\" width=\""
     \o width \o "\" height=\"" \o height \o "\" viewBox=\"0 0 ")
    \o (width \o " " \o height \o "\" role=\"presentation\">")
    \o (IF Len(defsEntries) # 0 THEN "<defs>" \o Head(defsEntries) \o "</defs>" ELSE "")
    \o (IF Len(defsEntries) > 1
        THEN "<defs>" \o JoinWith(Tail(defsEntries), "") \o "</defs>" ELSE "")
    \o (content \o "</svg>")

\* The document htmlToSvg returns; width and height are formatted.
svgDocument(width, height, defsEntries, content) ==
    ("<?xml version=\"1.0\" encoding=\"UTF-8\"?><svg xmlns=\"http://www.w3.org/2000/svg\" width=\""
     \o width \o "\" height=\"" \o height \o "\" viewBox=\"0 0 ")
    \o (width \o " " \o height \o "\" role=\"presentation\">")
    \o (IF Len(defsEntries) # 0 THEN "<defs>" \o JoinWith(defsEntries, "") \o "</defs>" ELSE "")
    \o (content \o "</svg>")

\* htmlToSvg from const cssBlock on: rendered is what renderNode returned.
svgOfMarkup(rootRect, options, snap, rendered) ==
    [threw |-> FALSE,
     value |-> svgDocument(formatNumber(rootRect.width), formatNumber(rootRect.height),
                           (IF Trim(options.inlineCss) # ""
                            THEN <<createStyleDef(Trim(options.inlineCss))>> ELSE <<>>)
                           \o rendered.context.defs,
                           rendered.markup),
     counter |-> snap.counter,
     simpleTree |-> snap.node,
     context |-> rendered.context,
     calls |-> snap.calls]

\* htmlToSvg from the check of simpleTree on: snap is what the snapshot of
\* the root returned.
svgOfSnapshot(rootRect, options, snap) ==
    IF snap.node = Null
    THEN thrown("Unable to capture layout from the provided HTML.", snap)
    ELSE svgOfMarkup(rootRect, options, snap, renderNode(snap.node, newRenderContext))

\* htmlToSvg with nodeCounter = counter.  The result is [threw, value,
\* counter, simpleTree, context, calls]: value is the document returned or
\* the message of the error thrown, counter is nodeCounter afterwards; the
\* snapshot, the final RenderContext and the number of elements the
\* snapshot measured are kept for the properties.
htmlToSvg(rootElement, options, counter) ==
    IF rootElement.kind = "null"
    THEN thrown("A root element is required to generate SVG.",
                [node |-> Null, counter |-> counter, calls |-> 0])
    ELSE IF rootHasNoLayout(rootElement.rect)
         THEN thrown("Root element has no measurable layout.",
                     [node |-> Null, counter |-> counter, calls |-> 0])
    ELSE svgOfSnapshot(rootElement.rect, options,
                       captureRoot(rootElement, rootElement.rect, counter))


(***************************************************************************)
(* Values shared by the specifications                                     *)
(***************************************************************************)
NoValue == [kind |-> "none"]
NullHandle == [kind |-> "null"]

(***************************************************************************)
(* parseColor on its own: the inputs are colour strings written from       *)
(* their channels, so that the expected result is known independently of   *)
(* the parser.                                                             *)
(***************************************************************************)
HexDigitSample == {"0", "9", "a", "F"}
HexPairSample == {"00", "7f", "A0", "fe"}
\* alpha bytes of hex colours: the digits and the byte they denote
HexAlphaSample ==
    { [text |-> "00", byte |-> 0], [text |-> "80", byte |-> 128],
      [text |-> "fF", byte |-> 255], [text |-> "33", byte |-> 51] }
HexAlphaDigitSample ==
    { [text |-> "0", byte |-> 0], [text |-> "8", byte |-> 136],
      [text |-> "f", byte |-> 255], [text |-> "C", byte |-> 204] }
\* rgb() channels: the decimal text and the two hex digits it denotes
ChannelSample ==
    { [dec |-> "0", hex |-> "00"], [dec |-> "9", hex |-> "09"],
      [dec |-> "128", hex |-> "80"], [dec |-> "255", hex |-> "ff"] }
\* rgba() alphas: the text and the number it denotes
AlphaSample ==
    { [text |-> "0", v |-> 0], [text |-> "0.5", v |-> SCALE \div 2],
      [text |-> "1", v |-> SCALE], [text |-> ".25", v |-> SCALE \div 4] }
CommaSample == {",", ", ", " , "}

ColorInput(text, r, g, b, alpha) ==
    [text |-> text, r |-> r, g |-> g, b |-> b, alpha |-> alpha]

ShortHexInputs ==
    { ColorInput("#" \o r \o g \o b, r \o r, g \o g, b \o b, SCALE) :
        r \in HexDigitSample, g \in HexDigitSample, b \in HexDigitSample }
    \cup
    { ColorInput("#" \o r \o g \o b \o a.text, r \o r, g \o g, b \o b,
                 a.byte * (SCALE \div 255)) :
        r \in HexDigitSample, g \in HexDigitSample, b \in {"0", "F"},
        a \in HexAlphaDigitSample }

LongHexInputs ==
    { ColorInput("#" \o r \o g \o b, r, g, b, SCALE) :
        r \in HexPairSample, g \in HexPairSample, b \in HexPairSample }
    \cup
    { ColorInput("#" \o r \o g \o b \o a.text, r, g, b, a.byte * (SCALE \div 255)) :
        r \in HexPairSample, g \in HexPairSample, b \in {"00", "fe"},
        a \in HexAlphaSample }

RgbInputs ==
    { ColorInput(pad \o "rgb(" \o r.dec \o c \o g.dec \o c \o b.dec \o ")",
                 r.hex, g.hex, b.hex, SCALE) :
        r \in ChannelSample, g \in ChannelSample, b \in ChannelSample,
        c \in CommaSample, pad \in {"", " "} }
    \cup
    { ColorInput(name \o "(" \o r.dec \o c \o g.dec \o c \o b.dec \o c \o a.text \o ")",
                 r.hex, g.hex, b.hex, a.v) :
        r \in ChannelSample, g \in ChannelSample, b \in {[dec |-> "0", hex |-> "00"]},
        c \in CommaSample, a \in AlphaSample, name \in {"rgba", "RGBA"} }

ColorInputs == ShortHexInputs \cup LongHexInputs \cup RgbInputs

InitColor ==
    /\ nodeCounter = 0
    /\ dom = NullHandle
    /\ op = "init"
    /\ arg \in ColorInputs
    /\ ret = NoValue
    /\ obs = NoValue
    /\ app = NoValue

\* parseColor(arg.text)
ParseColorCall ==
    /\ op = "init"
    /\ op' = "parseColor"
    /\ ret' = parseColor(arg.text)
    /\ UNCHANGED <<nodeCounter, dom, arg, obs, app>>

\* parseColor applied to the colour that parseColor returned
ParseColorAgain ==
    /\ op = "parseColor"
    /\ op' = "parseColorAgain"
    /\ obs' = parseColor(ret.color)
    /\ UNCHANGED <<nodeCounter, dom, arg, ret, app>>

NextColor == ParseColorCall \/ ParseColorAgain

SpecColor == InitColor /\ [][NextColor]_vars

\* C9: for every colour written as #RGB, #RGBA, #RRGGBB, #RRGGBBAA or as
\* rgb()/rgba() with integer channels 0..255, parseColor returns '#' and the
\* six hex digits of those channels (short digits doubled) with the alpha as
\* a separate opacity (hex alpha / 255, rgba alpha as given, 1 when absent),
\* and parsing the returned colour again gives the same colour at opacity 1.
C9_ParseColorNormalizes ==
    /\ op \in {"parseColor", "parseColorAgain"} =>
          /\ ret.color = "#" \o arg.r \o arg.g \o arg.b
          /\ ret.opacity = arg.alpha
    /\ op = "parseColorAgain" =>
          obs = [color |-> "#" \o arg.r \o arg.g \o arg.b, opacity |-> SCALE]

\* a short hex colour with an alpha digit has been parsed and parsed again
C9_Witness ==
    /\ op = "parseColorAgain"
    /\ Len(Trim(arg.text)) = 5
    /\ ret.opacity = 136 * (SCALE \div 255)
    /\ obs.opacity = SCALE

(***************************************************************************)
(* roundedRectPath on its own                                              *)
(***************************************************************************)
MaxRadiusPx == 24

\* positions and sizes, some of them off the thousandths that formatNumber keeps
XSample == {Num(10) + SCALE \div 32, -Num(3)}
YSample == {0, Num(5) + 408}
SizeSample == {MILLI, 612, Num(15) \div 2, Num(40)}
RadiusSample == {0, 408, Num(3), Num(MaxRadiusPx)}

BorderRadiusSample ==
    [topLeft : RadiusSample, topRight : RadiusSample,
     bottomRight : RadiusSample, bottomLeft : RadiusSample]

PathInputs ==
    [x : XSample, y : YSample, width : SizeSample, height : SizeSample,
     radii : BorderRadiusSample]

InitPath ==
    /\ nodeCounter = 0
    /\ dom = NullHandle
    /\ op = "init"
    /\ arg \in PathInputs
    /\ ret = NoValue
    /\ obs = NoValue
    /\ app = NoValue

\* roundedRectPath(arg.x, arg.y, arg.width, arg.height, arg.radii); obs keeps
\* the clamped radii and the numbers before formatting.
RoundedRectPathCall ==
    /\ op = "init"
    /\ op' = "roundedRectPath"
    /\ ret' = roundedRectPath(arg.x, arg.y, arg.width, arg.height, arg.radii)
    /\ obs' = [radii |-> clampedRadii(arg.width, arg.height, arg.radii),
               coords |-> roundedRectCoords(arg.x, arg.y, arg.width, arg.height, arg.radii)]
    /\ UNCHANGED <<nodeCounter, dom, arg, app>>

NextPath == RoundedRectPathCall

SpecPath == InitPath /\ [][NextPath]_vars

\* The numbers written in a path, in order (the command letters dropped).
PathNumbers(path) ==
    LET toks == SplitWhiteSpace(path)
        nums == SelectSeq(toks, LAMBDA t : t \notin {"M", "H", "V", "Q", "Z"})
    IN [i \in 1..Len(nums) |-> ParseFloat(nums[i]).v]

\* which of the 22 numbers of a rounded-rectangle path are abscissae
PathXIndex == {1, 3, 4, 6, 9, 11, 13, 14, 16, 19, 21}
PathYIndex == (1..22) \ PathXIndex

ReadBack(path) ==
    LET box(e) ==
            [x |-> e[19], y |-> e[20], width |-> e[4] - e[19], height |-> e[10] - e[20],
             radii |-> [topLeft |-> e[1] - e[19], topRight |-> e[4] - e[3],
                        bottomRight |-> e[10] - e[8], bottomLeft |-> e[13] - e[19]]]
    IN box(PathNumbers(path))

\* what was read back is the box of the call with the radii the call used,
\* and the path written for it is the path read
RoundTrips(box, clamped, path) ==
    LET same(b) ==
            /\ b.radii = [topLeft |-> clamped.tl, topRight |-> clamped.tr,
                          bottomRight |-> clamped.br, bottomLeft |-> clamped.bl]
            /\ b.x = box.x /\ b.y = box.y
            /\ b.width = box.width /\ b.height = box.height
            /\ roundedRectPath(b.x, b.y, b.width, b.height, b.radii) = path
    IN same(ReadBack(path))

\* a number with at most three decimals
HasThreeDecimals(value) == value % MILLI = 0

\* C11 as stated: the radii and the box read back from the emitted path are
\* the clamped radii and the box of the call, and the path generated from
\* them is the emitted path.
C11_PathRoundTrips ==
    op = "roundedRectPath" => RoundTrips(arg, obs.radii, ret)

\* C11, amended: the same for a box and clamped radii of at most three
\* decimals, the digits formatNumber keeps.
C11_ThreeDecimalsRoundTrip ==
    ( /\ op = "roundedRectPath"
      /\ \A v \in {arg.x, arg.y, arg.width, arg.height} : HasThreeDecimals(v)
      /\ \A r \in {obs.radii.tl, obs.radii.tr, obs.radii.br, obs.radii.bl} :
             HasThreeDecimals(r) )
    => RoundTrips(arg, obs.radii, ret)

\* a path has been written for a box of three decimals with four different
\* radii in use, one of them cut down to half the height
C11_Witness ==
    /\ op = "roundedRectPath"
    /\ \A v \in {arg.x, arg.y, arg.width, arg.height} : HasThreeDecimals(v)
    /\ \A r \in {obs.radii.tl, obs.radii.tr, obs.radii.br, obs.radii.bl} :
           HasThreeDecimals(r)
    /\ Cardinality({obs.radii.tl, obs.radii.tr, obs.radii.br, obs.radii.bl}) >= 3
    /\ obs.radii.tr # obs.radii.br
    /\ 2 * obs.radii.tl = arg.height /\ arg.radii.topLeft > obs.radii.tl

(***************************************************************************)
(* parseFill on its own: background-image values written from their stop   *)
(* tokens, and background-color values with the fill they stand for.       *)
(***************************************************************************)
AnglePrefixSample == {"", "45deg, ", "to right, "}

StopListSample ==
    { <<>>,
      <<"red">>,
      <<"red", "", "">>,
      <<"rgba(255, 0, 0, 0.5) 10%">>,
      <<"red", "blue">>,
      <<"rgb(255, 0, 0)", "rgba(0, 0, 255, 0.5) 80%">>,
      <<"red", "", "blue">>,
      <<"#fff 0%", "#000 50%", "blue">>,
      <<"red -10%", "blue 150%">> }

\* the stop tokens that are not blank
UsableStops(stops) == SelectSeq(stops, LAMBDA t : Trim(t) # "")

GradientText(prefix, stops) == "linear-gradient(" \o prefix \o JoinWith(stops, ", ") \o ")"

\* [text, hasGradient, usable]: usable counts the non-blank stop tokens of
\* the first linear-gradient(...) of text
ImageSample ==
    { [text |-> GradientText(p, st), hasGradient |-> TRUE, usable |-> Len(UsableStops(st))] :
        p \in AnglePrefixSample, st \in StopListSample }
    \cup
    { [text |-> "url(a.png), " \o GradientText(p, st), hasGradient |-> TRUE,
       usable |-> Len(UsableStops(st))] :
        p \in {"", "45deg, "}, st \in StopListSample }
    \cup
    { [text |-> GradientText("", st) \o ", linear-gradient(red, blue)", hasGradient |-> TRUE,
       usable |-> Len(UsableStops(st))] :
        st \in StopListSample }
    \cup
    { [text |-> t, hasGradient |-> FALSE, usable |-> 0] :
        t \in {"", "none", "url(a.png)", "radial-gradient(red, blue)"} }

\* [text, transparent, fill]: transparent marks the fully transparent
\* colours, fill is the solid fill a visible colour stands for
ColorSample ==
    { [text |-> "", transparent |-> FALSE, visible |-> FALSE, fill |-> Null],
      [text |-> "transparent", transparent |-> TRUE, visible |-> FALSE, fill |-> Null],
      [text |-> "rgba(0, 0, 0, 0)", transparent |-> TRUE, visible |-> FALSE, fill |-> Null],
      [text |-> "rgba(0,0,0,0)", transparent |-> TRUE, visible |-> FALSE, fill |-> Null],
      [text |-> "rgb(0, 0, 255)", transparent |-> FALSE, visible |-> TRUE,
       fill |-> [kind |-> "solid", color |-> "#0000ff", opacity |-> SCALE]],
      [text |-> "rgba(0, 0, 0, 0.5)", transparent |-> FALSE, visible |-> TRUE,
       fill |-> [kind |-> "solid", color |-> "#000000", opacity |-> SCALE \div 2]],
      [text |-> "#336699", transparent |-> FALSE, visible |-> TRUE,
       fill |-> [kind |-> "solid", color |-> "#336699", opacity |-> SCALE]] }

FillInputs ==
    { [style |-> [backgroundImage |-> im.text, backgroundColor |-> c.text],
       image |-> im, color |-> c] :
        im \in ImageSample, c \in ColorSample }

InitFill ==
    /\ nodeCounter = 0
    /\ dom = NullHandle
    /\ op = "init"
    /\ arg \in FillInputs
    /\ ret = NoValue
    /\ obs = NoValue
    /\ app = NoValue

\* parseFill(arg.style); obs keeps what parseLinearGradient returned for the
\* background-image when parseFill called it.
ParseFillCall ==
    /\ op = "init"
    /\ op' = "parseFill"
    /\ ret' = parseFill(arg.style)
    /\ obs' = [called |-> arg.style.backgroundImage \notin {"", "none"},
               gradient |-> IF arg.style.backgroundImage \notin {"", "none"}
                            THEN parseLinearGradient(arg.style.backgroundImage)
                            ELSE Null]
    /\ UNCHANGED <<nodeCounter, dom, arg, app>>

NextFill == ParseFillCall

SpecFill == InitFill /\ [][NextFill]_vars

\* C7: with no usable background-image gradient, a background-color that is
\* transparent or rgba(0,0,0,0), with or without spaces after the commas,
\* gives a null fill, never a SolidFill.
C7_TransparentIsNull ==
    (op = "parseFill" /\ arg.image.usable < 2 /\ arg.color.transparent) => ret = Null

\* C8 as claimed: a first linear-gradient with fewer than 2 usable stops
\* makes the fill parser yield a null fill (stated for the background-colors
\* that are not fully transparent, which C7 is about).
C8_FewStopsNullFill ==
    (op = "parseFill" /\ arg.image.hasGradient /\ arg.image.usable < 2
       /\ ~arg.color.transparent) => ret = Null

\* C8 as amended: a first linear-gradient with fewer than 2 usable stops is
\* discarded whole (parseLinearGradient returns null, never a gradient of
\* one stop) and parseFill falls through to the background-color: the solid
\* fill of a visible colour, a null fill when there is no colour.
C8_FewStopsFallThrough ==
    (op = "parseFill" /\ arg.image.hasGradient /\ arg.image.usable < 2) =>
      /\ obs.called /\ obs.gradient = Null
      /\ ret.kind # "linear-gradient"
      /\ arg.color.visible => ret = arg.color.fill
      /\ arg.color.text \in {"", "transparent", "rgba(0, 0, 0, 0)"} => ret = Null

\* a gradient whose only usable stop is followed by blank ones was parsed
\* over a visible background-color
C8_Witness ==
    /\ op = "parseFill"
    /\ arg.image.hasGradient /\ arg.image.usable = 1
    /\ Len(splitGradientArgs(arg.image.text)) > 1
    /\ arg.color.visible
    /\ ret.kind = "solid"

(***************************************************************************)
(* Conversions of a mounted tree                                           *)
(*                                                                         *)
(* dom is the styled element tree the host has mounted; the caller hands   *)
(* htmlToSvg that tree, no handle at all, or the root of another tree.     *)
(***************************************************************************)
MaxNodeCounter == 1

Rect(left, top, width, height) ==
    [left |-> Num(left), top |-> Num(top), width |-> Num(width), height |-> Num(height)]

BaseStyle ==
    [display |-> "block", visibility |-> "visible", opacity |-> "1",
     backgroundImage |-> "none", backgroundColor |-> "rgba(0, 0, 0, 0)",
     borderTopLeftRadius |-> "0px", borderTopRightRadius |-> "0px",
     borderBottomRightRadius |-> "0px", borderBottomLeftRadius |-> "0px",
     borderTopWidth |-> "0px", borderTopStyle |-> "none", borderTopColor |-> "rgb(0, 0, 0)",
     borderRightWidth |-> "0px", borderRightStyle |-> "none", borderRightColor |-> "rgb(0, 0, 0)",
     borderBottomWidth |-> "0px", borderBottomStyle |-> "none", borderBottomColor |-> "rgb(0, 0, 0)",
     borderLeftWidth |-> "0px", borderLeftStyle |-> "none", borderLeftColor |-> "rgb(0, 0, 0)",
     boxShadow |-> "none",
     overflow |-> "visible", overflowX |-> "visible", overflowY |-> "visible",
     color |-> "rgb(255, 255, 255)", fontSize |-> "16px",
     fontFamily |-> "\"Inter\", sans-serif", lineHeight |-> "normal",
     letterSpacing |-> "normal", textAlign |-> "center",
     fontWeight |-> "400", fontStyle |-> "normal"]

CardStyle ==
    [BaseStyle EXCEPT
       !.backgroundImage = "linear-gradient(45deg, rgb(255, 0, 0), rgba(0, 0, 255, 0.5) 80%)",
       !.boxShadow = "0 4px 8px rgba(0,0,0,0.3), inset 0 1px 2px #fff",
       !.overflow = "hidden",
       !.borderTopLeftRadius = "12px", !.borderBottomRightRadius = "80px"]

Element(tagName, id, className, rect, style, childNodes) ==
    [kind |-> "element", key |-> "", tagName |-> tagName, id |-> id, className |-> className,
     rect |-> rect, style |-> style, childNodes |-> childNodes]

\* A text node laid out on one line: character i is charWidth wide.
TextLine(content, left, top, charWidth, height) ==
    [kind |-> "text", textContent |-> content,
     rects |-> [i \in 1..Len(content) |->
                  [left |-> Num(left) + (i - 1) * Num(charWidth), top |-> Num(top),
                   width |-> IF Char(content, i) \in WhiteSpace /\ (i = 1 \/ i = Len(content))
                             THEN 0 ELSE Num(charWidth),
                   height |-> Num(height)]]]

\* The text node content as the host lays it out.  wraps are the characters
\* (counted from 1) that start a new line; collapsed tells that white space
\* at the edge of a line or after white space has no area, as under
\* white-space: normal; nudge lifts every second character by less than the
\* tolerance of the segmenter.
LaidOut(content, wraps, collapsed, nudge) ==
    LET isSpace(i) == Char(content, i) \in WhiteSpace
        lineOf(i) == Cardinality({w \in wraps : w <= i})
        lineStart(i) == IF \E w \in wraps : w <= i
                        THEN CHOOSE w \in wraps : w <= i /\ \A v \in wraps : v <= i => v <= w
                        ELSE 1
        noArea(i) ==
            /\ collapsed
            /\ isSpace(i)
            /\ \/ i = 1 \/ i = Len(content)
               \/ i \in wraps \/ (i + 1) \in wraps
               \/ isSpace(i - 1)
    IN [kind |-> "text", textContent |-> content,
        rects |-> [i \in 1..Len(content) |->
                     [left |-> Num(12) + (i - lineStart(i)) * Num(8),
                      top |-> Num(12) + lineOf(i) * Num(20)
                              + (IF i % 2 = 0 THEN nudge ELSE 0),
                      width |-> IF noArea(i) THEN 0 ELSE Num(8),
                      height |-> Num(18)]]]

IconClass == "material-symbols-outlined"

\* the elements found below the root
Plain == Element("P", "", "", Rect(10, 10, 80, 20),
                 [BaseStyle EXCEPT !.boxShadow = "inset 0 1px 2px #fff"],
                 <<TextLine(" Hello ", 12, 12, 8, 18)>>)
Inner == Element("SPAN", "", "label", Rect(12, 42, 40, 16),
                 [BaseStyle EXCEPT !.boxShadow = "0px 2px 4px rgba(0, 0, 0, 0.5)",
                                   !.overflowY = "hidden"],
                 <<TextLine("a<b", 12, 42, 8, 16)>>)
HiddenBox == Element("DIV", "", "", Rect(10, 40, 80, 20),
                     [BaseStyle EXCEPT !.visibility = "hidden"], <<Inner>>)
FadedBox == Element("DIV", "div-0", "", Rect(10, 40, 80, 20),
                    [BaseStyle EXCEPT !.opacity = "0", !.backgroundColor = "rgb(51, 102, 153)"],
                    <<>>)
NoneBox == Element("DIV", "", "", Rect(10, 40, 80, 20),
                   [BaseStyle EXCEPT !.display = "none"], <<>>)
FlatBox == Element("DIV", "", "", Rect(10, 40, 80, 0), BaseStyle,
                   <<TextLine("flat", 12, 42, 8, 16), Inner>>)
UnknownIcon == Element("SPAN", "", IconClass, Rect(100, 10, 24, 24), BaseStyle,
                       <<TextLine(" rocket ", 100, 10, 3, 24), Inner>>)
KnownIcon == Element("SPAN", "", IconClass \o " big", Rect(100, 40, 48, 24),
                     [BaseStyle EXCEPT !.opacity = "0.5"],
                     <<TextLine("settings", 100, 40, 6, 24)>>)
Script == Element("SCRIPT", "", "", Rect(0, 0, 10, 10), BaseStyle, <<Inner>>)
Card == Element("DIV", "card", "card", Rect(20, 20, 60, 40), CardStyle,
                <<Inner, TextLine("ok", 22, 22, 8, 16), FadedBox,
                  LaidOut("ab cd", {4}, TRUE, 0)>>)

ChildSample == {Plain, HiddenBox, FadedBox, NoneBox, FlatBox, UnknownIcon, KnownIcon,
                Script, Card}

SiblingSample == {Plain, HiddenBox, KnownIcon}

ChildLists ==
    {<<>>} \cup {<<a>> : a \in ChildSample} \cup {<<a, b>> : a \in ChildSample, b \in SiblingSample}

\* the roots: [tagName, id, className, rect, style]
RootSample ==
    { Element("DIV", "", "hidden-renderer-root dark", Rect(5, 7, 200, 100),
              [BaseStyle EXCEPT !.backgroundColor = "rgb(51, 102, 153)",
                                !.boxShadow = "2px 2px #f00, 0 1px 3px rgba(0, 0, 255, 0.5)"],
              <<>>),
      Element("DIV", "root", "", [Rect(0, 0, 200, 100) EXCEPT !.width = Num(200) + (5 * SCALE) \div 16],
              [CardStyle EXCEPT !.visibility = "hidden"], <<>>),
      Element("DIV", "", "", Rect(0, 0, 200, 0), BaseStyle, <<>>),
      Element("DIV", "", "", Rect(0, 0, 0, 100), BaseStyle, <<>>),
      Element("SPAN", "", IconClass, Rect(0, 0, 24, 24), BaseStyle,
              <<TextLine("rocket", 0, 0, 4, 24)>>) }

\* The tree with every element named by its position: the root is "r", the
\* k-th child node of element e is e.k.
RECURSIVE WithKeys(_, _)
WithKeys(node, key) ==
    IF node.kind = "text" THEN node
    ELSE [node EXCEPT !.key = key,
                      !.childNodes = [k \in 1..Len(node.childNodes) |->
                                        WithKeys(node.childNodes[k], key \o "." \o ToString(k))]]

Trees ==
    { WithKeys([root EXCEPT !.childNodes = @ \o kids], "r") :
        root \in RootSample, kids \in ChildLists }

\* the root of another tree, which takes one generated id
OtherRoot == WithKeys(Element("DIV", "", "", Rect(0, 0, 50, 50), BaseStyle, <<Script>>), "o")

\* a root of another tree that is itself a script element shown as a block
IgnoredRoot == WithKeys(Script, "s")

OptionsSample == { [inlineCss |-> " \n"], [inlineCss |-> " p]]>{fill:red} "] }

Init ==
    /\ nodeCounter = 0
    /\ dom \in Trees
    /\ op = "init"
    /\ arg = NoValue
    /\ ret = NoValue
    /\ obs = NoValue
    /\ app = NoValue

\* htmlToSvg(rootElement, options)
HtmlToSvg(rootElement, options) ==
    LET ended(result) ==
            /\ nodeCounter' = result.counter
            /\ ret' = [threw |-> result.threw, value |-> result.value]
            /\ obs' = [simpleTree |-> result.simpleTree, context |-> result.context,
                       calls |-> result.calls, counterBefore |-> nodeCounter]
    IN
    /\ nodeCounter <= MaxNodeCounter
    /\ \E result \in {htmlToSvg(rootElement, options, nodeCounter)} : ended(result)
    /\ op' = "htmlToSvg"
    /\ arg' = [rootElement |-> rootElement, options |-> options]
    /\ UNCHANGED <<dom, app>>

\* the host converts what it has mounted, with or without inline CSS
ConvertMounted == \E options \in OptionsSample : HtmlToSvg(dom, options)

\* a caller converts with no handle, or converts another tree
ConvertOther ==
    \E rootElement \in {NullHandle, OtherRoot, IgnoredRoot} :
        HtmlToSvg(rootElement, [inlineCss |-> ""])

Next == ConvertMounted \/ ConvertOther

Spec == Init /\ [][Next]_vars

(***************************************************************************)
(* Properties of a conversion                                              *)
(***************************************************************************)
\* the elements of a tree, root first
RECURSIVE ElementsOf(_)
RECURSIVE ElementsOfAll(_, _)
ElementsOfAll(childNodes, k) ==
    IF k > Len(childNodes) THEN <<>>
    ELSE (IF childNodes[k].kind = "element" THEN ElementsOf(childNodes[k]) ELSE <<>>)
         \o ElementsOfAll(childNodes, k + 1)

ElementsOf(element) == <<element>> \o ElementsOfAll(element.childNodes, 1)

\* the nodes of a snapshot tree, root first; none for Null
RECURSIVE NodesOf(_)
RECURSIVE NodesOfAll(_, _)
NodesOfAll(children, k) ==
    IF k > Len(children) THEN <<>>
    ELSE NodesOf(children[k]) \o NodesOfAll(children, k + 1)

NodesOf(node) ==
    IF node.kind = "null" THEN <<>> ELSE <<node>> \o NodesOfAll(node.children, 1)

\* key names the element named by ancestor, or one below it
IsWithin(key, ancestor) == key = ancestor \/ StartsWith(key, ancestor \o ".")

\* some node of the tree was made from the element or from its subtree
HasNodeWithin(tree, element) ==
    LET nodes == NodesOf(tree)
    IN \E i \in DOMAIN nodes : IsWithin(nodes[i].origin, element.key)

\* the element's own Box or Icon node is in the tree
HasOwnNode(tree, element) ==
    LET nodes == NodesOf(tree)
    IN \E i \in DOMAIN nodes :
         nodes[i].origin = element.key /\ nodes[i].kind \in {"box", "icon"}

IsUnmappedIcon(element) ==
    /\ ClassListContains(element, IconClass)
    /\ Trim(textContent(element)) \notin DOMAIN MATERIAL_SYMBOLS_PATHS

IsZeroSize(element) == element.rect.width = 0 \/ element.rect.height = 0

\* a conversion of an element tree has just returned or thrown
Converted == op = "htmlToSvg" /\ arg.rootElement.kind = "element"

\* the snapshot of the converted root with the visibility flag off
StrictSnapshot ==
    createNodeFromElement(arg.rootElement, arg.rootElement.rect, FALSE, 0).node

\* C1: htmlToSvg throws, and so returns no document, when it is given no
\* root handle, when the root measures zero wide or zero high, and when the
\* snapshot has no node for the root; in the first two cases it throws
\* before the snapshot measures any element, takes any id or registers any
\* definition.
C1_FailsWithoutDocument ==
    op = "htmlToSvg" =>
      LET root == arg.rootElement
          noHandle == root.kind = "null"
          zeroSize == ~noHandle /\ IsZeroSize(root)
          noNode == ~noHandle /\ ~zeroSize /\ obs.simpleTree = Null
      IN /\ noHandle => ret = [threw |-> TRUE,
                               value |-> "A root element is required to generate SVG."]
         /\ zeroSize => ret = [threw |-> TRUE,
                               value |-> "Root element has no measurable layout."]
         /\ noNode => ret = [threw |-> TRUE,
                             value |-> "Unable to capture layout from the provided HTML."]
         /\ (noHandle \/ zeroSize) =>
               /\ obs.calls = 0
               /\ nodeCounter = obs.counterBefore
               /\ obs.context.defs = <<>>

\* a zero-height root with children was refused with ids already handed out
C1_Witness ==
    /\ Converted
    /\ arg.rootElement.rect.height = 0
    /\ arg.rootElement.rect.width > 0
    /\ Len(arg.rootElement.childNodes) = 2
    /\ obs.counterBefore > 0
    /\ ret.threw

C3_HiddenSkipped ==
    (Converted /\ ~ret.threw) =>
      LET elements == ElementsOf(arg.rootElement)
      IN \A i \in DOMAIN elements :
           (i > 1 /\ ~isRenderable(elements[i].style)) =>
              ~HasNodeWithin(obs.simpleTree, elements[i])

\* an element the snapshot reaches below a captured box and, its style set
\* aside, keeps
Capturable(parent, k) ==
    LET e == parent.childNodes[k]
    IN /\ e.kind = "element"
       /\ e.tagName \notin IGNORED_TAGS
       /\ ~IsZeroSize(e)
       /\ ~IsUnmappedIcon(e)

\* C3: a non-renderable element other than the root is skipped, with its
\* subtree, only in a traversal whose visibility flag is off.  htmlToSvg
\* starts the traversal with the flag on and every element hands the flag
\* on to its children, so in a conversion through htmlToSvg a non-renderable
\* element of non-zero size (not an ignored tag, not an unmapped icon) below
\* a captured box has its node like any other element.
C3_HiddenFollowsRootFlag ==
    (Converted /\ ~ret.threw) =>
      LET elements == ElementsOf(arg.rootElement)
      IN \A i \in DOMAIN elements :
           LET p == elements[i]
           IN /\ \A k \in DOMAIN p.childNodes :
                   (/\ Capturable(p, k)
                    /\ ~isRenderable(p.childNodes[k].style)
                    /\ HasOwnNode(obs.simpleTree, p)
                    /\ ~ClassListContains(p, IconClass))
                   => HasOwnNode(obs.simpleTree, p.childNodes[k])
              /\ ~isRenderable(p.style) => ~HasNodeWithin(StrictSnapshot, p)

\* a hidden box and the box inside it were both captured below a visible root
C3_Witness ==
    /\ Converted
    /\ ~ret.threw
    /\ isRenderable(arg.rootElement.style)
    /\ \E k \in DOMAIN arg.rootElement.childNodes :
         LET e == arg.rootElement.childNodes[k]
         IN /\ e.kind = "element"
            /\ e.style.visibility = "hidden"
            /\ Len(ElementsOf(e)) > 1
            /\ HasOwnNode(obs.simpleTree, e)
            /\ HasOwnNode(obs.simpleTree, ElementsOf(e)[2])
            /\ ~HasNodeWithin(StrictSnapshot, e)

\* C4: an element measuring zero wide or zero high has no node, and neither
\* have its texts nor the elements below it, with the visibility flag on
\* and with it off; every Box and Icon node of a snapshot has width > 0 and
\* height > 0.
C4_ZeroSizeSkipped ==
    Converted =>
      LET elements == ElementsOf(arg.rootElement)
          snapshots == <<obs.simpleTree, StrictSnapshot>>
      IN \A s \in DOMAIN snapshots :
           /\ \A i \in DOMAIN elements :
                 IsZeroSize(elements[i]) => ~HasNodeWithin(snapshots[s], elements[i])
           /\ LET nodes == NodesOf(snapshots[s])
              IN \A n \in DOMAIN nodes :
                   nodes[n].kind \in {"box", "icon"} =>
                      nodes[n].width > 0 /\ nodes[n].height > 0

\* a zero-height element holding a text and an element lies below a captured
\* root, next to an element that was captured
C4_Witness ==
    /\ Converted
    /\ ~ret.threw
    /\ Len(NodesOf(obs.simpleTree)) > 1
    /\ \E k \in DOMAIN arg.rootElement.childNodes :
         LET e == arg.rootElement.childNodes[k]
         IN /\ e.kind = "element"
            /\ e.rect.height = 0
            /\ e.rect.width > 0
            /\ Len(e.childNodes) = 2
            /\ Len(ElementsOf(e)) = 2

\* the id="..." of a definition
DefId(def) ==
    LET from == IndexOf(def, " id=\"") + 5
        to == IndexOfFrom(def, "\"", from)
    IN SubSeq(def, from, to - 1)

\* text occurs in document
Occurs(text, document) ==
    \E i \in 1..(Len(document) - Len(text) + 1) :
        SubSeq(document, i, i + Len(text) - 1) = text

DefsOfKind(defs, prefix) == SelectSeq(defs, LAMBDA d : StartsWith(DefId(d), prefix))

\* C5: the gradients, shadow filters and clip paths registered in the
\* RenderContext of one conversion all have different ids, and each of them
\* is in the document.
C5_DefinitionIdsDistinct ==
    (Converted /\ ~ret.threw) =>
      LET defs == obs.context.defs
      IN /\ \A i, j \in DOMAIN defs : i # j => DefId(defs[i]) # DefId(defs[j])
         /\ \A i \in DOMAIN defs :
              /\ \/ StartsWith(DefId(defs[i]), "gradient-")
                 \/ StartsWith(DefId(defs[i]), "shadow-")
                 \/ StartsWith(DefId(defs[i]), "clip-")
              /\ Occurs(defs[i], ret.value)

\* two gradients, two shadow filters and two clip paths in one document
C5_Witness ==
    /\ Converted
    /\ ~ret.threw
    /\ Len(DefsOfKind(obs.context.defs, "gradient-")) >= 2
    /\ Len(DefsOfKind(obs.context.defs, "shadow-")) >= 2
    /\ Len(DefsOfKind(obs.context.defs, "clip-")) >= 2

\* C6: what htmlToSvg returns or throws depends on the tree and the options
\* alone: after any conversions before it, with nodeCounter at any value, it
\* is what the first conversion of a fresh process gives.  The RenderContext
\* started empty with zero counters: at the end its counters count its own
\* definitions and nothing else.
C6_Deterministic ==
    op = "htmlToSvg" =>
      LET fresh == htmlToSvg(arg.rootElement, arg.options, 0)
          defs == obs.context.defs
      IN /\ ret = [threw |-> fresh.threw, value |-> fresh.value]
         /\ obs.context.gradientIndex = Len(DefsOfKind(defs, "gradient-"))
         /\ obs.context.filterIndex =
               Len(DefsOfKind(defs, "shadow-")) + Len(DefsOfKind(defs, "clip-"))
         /\ Len(defs) = obs.context.gradientIndex + obs.context.filterIndex

\* the mounted tree was converted again, after other conversions had taken
\* ids, into a document with definitions and generated node ids
C6_Witness ==
    /\ Converted
    /\ arg.rootElement = dom
    /\ ~ret.threw
    /\ obs.counterBefore > 0
    /\ nodeCounter > obs.counterBefore
    /\ Len(obs.context.defs) > 0

\* the element of the converted tree a node was made from
ElementOf(node) ==
    LET elements == ElementsOf(arg.rootElement)
    IN elements[CHOOSE i \in DOMAIN elements : elements[i].key = node.origin]

\* The drop shadows of the box-shadow values of the trees, as read from the
\* values by hand: dx, dy, half the blur, the colour and its opacity.
DropShadowsOf(boxShadow) ==
    CASE boxShadow = "0 4px 8px rgba(0,0,0,0.3), inset 0 1px 2px #fff" ->
           << <<"0", "4", "4", "#000000", "0.3">> >>
      [] boxShadow = "0px 2px 4px rgba(0, 0, 0, 0.5)" ->
           << <<"0", "2", "2", "#000000", "0.5">> >>
      [] boxShadow = "2px 2px #f00, 0 1px 3px rgba(0, 0, 255, 0.5)" ->
           << <<"2", "2", "0", "#ff0000", "1">>, <<"0", "1", "1.5", "#0000ff", "0.5">> >>
      [] boxShadow \in {"none", "inset 0 1px 2px #fff"} -> <<>>

RECURSIVE PrimitivesText(_)
PrimitivesText(shadows) ==
    IF shadows = <<>> THEN ""
    ELSE ("<feDropShadow dx=\"" \o Head(shadows)[1] \o "\" dy=\"" \o Head(shadows)[2])
         \o ("\" stdDeviation=\"" \o Head(shadows)[3])
         \o ("\" flood-color=\"" \o Head(shadows)[4])
         \o ("\" flood-opacity=\"" \o Head(shadows)[5] \o "\" />")
         \o PrimitivesText(Tail(shadows))

\* where text starts in document
Occurrences(text, document) == {i \in 1..Len(document) : StartsAt(document, i, text)}

\* the tag of document that opens at i
TagAt(document, i) == SubSeq(document, i, IndexOfFrom(document, ">", i))

\* the Box nodes of the snapshot, root first
BoxNodes == SelectSeq(NodesOf(obs.simpleTree), LAMBDA n : n.kind = "box")

\* the Box nodes whose element has a shadow that is not inset
ShadowedBoxes ==
    SelectSeq(BoxNodes, LAMBDA n : DropShadowsOf(ElementOf(n).style.boxShadow) # <<>>)

\* C14: the filter definitions of a document are those of its boxes with a
\* shadow that is not inset, one each in the order of the boxes; the filter
\* holds one feDropShadow per such shadow in list order, with half the blur
\* as stdDeviation and the opacity of the colour as flood-opacity; it is
\* referenced once, by the path of its box, and no other path has a filter.
C14_OneFilterPerShadowedBox ==
    (Converted /\ ~ret.threw) =>
      LET filters == DefsOfKind(obs.context.defs, "shadow-")
          reference(k) == " filter=\"url(#" \o DefId(filters[k]) \o ")\""
          pathOf(n) ==
              "<path d=\"" \o roundedRectPath(n.x, n.y, n.width, n.height, n.borderRadius) \o "\""
      IN /\ Len(filters) = Len(ShadowedBoxes)
         /\ \A k \in 1..Len(filters) :
              /\ filters[k] =
                   ("<filter id=\"" \o DefId(filters[k]))
                   \o "\" x=\"-50%\" y=\"-50%\" width=\"200%\" height=\"200%\" color-interpolation-filters=\"sRGB\">"
                   \o PrimitivesText(DropShadowsOf(ElementOf(ShadowedBoxes[k]).style.boxShadow))
                   \o "</filter>"
              /\ Cardinality(Occurrences(reference(k), ret.value)) = 1
              /\ \E i \in Occurrences(pathOf(ShadowedBoxes[k]), ret.value) :
                    Occurs(reference(k), TagAt(ret.value, i))
         /\ Cardinality(Occurrences(" filter=\"", ret.value)) = Len(filters)

\* a document was returned for a tree with a box of two drop shadows, a box
\* of a drop shadow and an inset shadow, and a box whose only shadow is inset
C14_Witness ==
    /\ Converted /\ ~ret.threw
    /\ \E i, j, k \in DOMAIN BoxNodes :
         /\ Len(DropShadowsOf(ElementOf(BoxNodes[i]).style.boxShadow)) = 2
         /\ ElementOf(BoxNodes[j]).style.boxShadow = CardStyle.boxShadow
         /\ ElementOf(BoxNodes[k]).style.boxShadow = "inset 0 1px 2px #fff"
    /\ Occurs("stdDeviation=\"4\" flood-color=\"#000000\" flood-opacity=\"0.3\"", ret.value)

\* the value of the attribute in a tag
AttributeOf(tag, name) ==
    LET from == IndexOf(tag, " " \o name \o "=\"") + Len(name) + 3
    IN SubSeq(tag, from, IndexOfFrom(tag, "\"", from) - 1)

\* the character data of the CDATA sections that follow each other from i
RECURSIVE CdataFrom(_, _)
CdataFrom(s, i) ==
    LET section(end) ==
            IF end = 0 THEN "<unterminated>"
            ELSE SubSeq(s, i + 9, end - 1) \o CdataFrom(s, end + 3)
    IN IF i > Len(s) THEN ""
       ELSE IF ~StartsAt(s, i, "<![CDATA[") THEN "<no section>"
       ELSE section(IndexOfFrom(s, "]]>", i + 9))

\* The document read as an envelope: the opening svg tag, the body of the
\* definitions section that follows it at once ("" for none), and the
\* content after it.
Envelope(document) ==
    LET open == IndexOf(document, "<svg ")
        after == IndexOfFrom(document, ">", open) + 1
        close == IndexOfFrom(document, "</defs>", after)
    IN IF StartsAt(document, after, "<defs>")
       THEN [tag |-> TagAt(document, open),
             defs |-> SubSeq(document, after + 6, close - 1),
             content |-> SubSeq(document, close + 7, Len(document))]
       ELSE [tag |-> TagAt(document, open), defs |-> "",
             content |-> SubSeq(document, after, Len(document))]

\* The document has the envelope of the claim for a root of the given
\* width and height and the given CSS ("" for none).
HasEnvelope(document, width, height, css) ==
    LET registered == JoinWith(obs.context.defs, "")
        styled(body) == SubSeq(body, 1, Len(body) - Len(registered))
        holds(e) ==
            /\ ParseFloat(AttributeOf(e.tag, "width")).v = width
            /\ ParseFloat(AttributeOf(e.tag, "height")).v = height
            /\ AttributeOf(e.tag, "viewBox")
                 = "0 0 " \o AttributeOf(e.tag, "width") \o " " \o AttributeOf(e.tag, "height")
            /\ Cardinality(Occurrences("<defs>", document)) = (IF e.defs = "" THEN 0 ELSE 1)
            /\ ~Occurs("<defs>", e.content)
            /\ EndsWith(e.defs, registered)
            /\ IF css = "" THEN styled(e.defs) = ""
               ELSE /\ StartsWith(styled(e.defs), "<style type=\"text/css\">")
                    /\ EndsWith(styled(e.defs), "</style>")
                    /\ CdataFrom(SubSeq(styled(e.defs), 1, Len(styled(e.defs)) - 8), 24) = css
    IN holds(Envelope(document))

\* C16 as stated: the document declares the measured width and height of
\* the root, as sizes and as view box, and has at most one definitions
\* section, ahead of the content, holding the CSS of the caller as supplied
\* and then the registered definitions in the order of registration.
C16_DocumentEnvelope ==
    (Converted /\ ~ret.threw) =>
      HasEnvelope(ret.value, arg.rootElement.rect.width, arg.rootElement.rect.height,
                  arg.options.inlineCss)

\* C16, amended: the same with the width and height rounded to three
\* decimals and the CSS without the white space around it, a CSS of white
\* space alone being no CSS.
C16_RoundedTrimmedEnvelope ==
    (Converted /\ ~ret.threw) =>
      HasEnvelope(ret.value, RoundMilli(arg.rootElement.rect.width) * MILLI,
                  RoundMilli(arg.rootElement.rect.height) * MILLI,
                  Trim(arg.options.inlineCss))

\* a document was returned for a root of a width with four decimals, with
\* registered definitions and a CSS that has white space around it and the
\* end of a CDATA section in it
C16_Witness ==
    /\ Converted /\ ~ret.threw
    /\ arg.rootElement.rect.width % MILLI # 0
    /\ Len(obs.context.defs) >= 3
    /\ arg.options.inlineCss = " p]]>{fill:red} "
    /\ Occurs("<defs><style", ret.value)

\* the characters of a text node that have an area
Measured(textNode) ==
    {i \in 1..Len(textNode.textContent) :
        textNode.rects[i].width # 0 /\ textNode.rects[i].height # 0}

\* the left edge of the characters of a text node that have an area
TextLeft(textNode) ==
    LET lefts == {textNode.rects[i].left : i \in Measured(textNode)}
    IN CHOOSE l \in lefts : \A m \in lefts : l <= m

\* C17: every Box and Icon node, at any depth, has the size of its element
\* and lies where its element lies from the top-left corner of the root,
\* whatever its parent; the root node lies at (0, 0); a line of text
\* anchored at its start lies at its left edge from the left of the root.
C17_PositionsRelativeToRoot ==
    Converted =>
      LET nodes == NodesOf(obs.simpleTree)
          root == arg.rootElement.rect
      IN /\ \A i \in DOMAIN nodes :
              LET n == nodes[i]
                  e == ElementOf(n)
              IN /\ n.kind \in {"box", "icon"} =>
                      /\ n.x = e.rect.left - root.left /\ n.y = e.rect.top - root.top
                      /\ n.width = e.rect.width /\ n.height = e.rect.height
                 /\ (n.kind = "text" /\ n.text.textAnchor = "start") =>
                      \E k \in DOMAIN e.childNodes :
                          /\ e.childNodes[k].kind = "text"
                          /\ n.x = TextLeft(e.childNodes[k]) - root.left
         /\ Len(nodes) > 0 =>
              /\ nodes[1].x = 0 /\ nodes[1].y = 0
              /\ nodes[1].width = root.width /\ nodes[1].height = root.height

\* a root away from the origin was captured with an icon below it and a box
\* two levels down whose parent lies elsewhere than the root
C17_Witness ==
    /\ Converted /\ ~ret.threw
    /\ arg.rootElement.rect.left # 0 /\ arg.rootElement.rect.top # 0
    /\ LET nodes == NodesOf(obs.simpleTree)
       IN /\ \E i \in DOMAIN nodes : nodes[i].kind = "icon"
          /\ \E i \in DOMAIN nodes :
                /\ nodes[i].kind = "box"
                /\ nodes[i].origin = "r.1.1"
                /\ arg.rootElement.childNodes[1].rect.left # arg.rootElement.rect.left
                /\ nodes[i].x # 0

\* the element tree with the style of every element made renderable
RECURSIVE Shown(_)
Shown(node) ==
    IF node.kind = "text" THEN node
    ELSE [node EXCEPT !.style = [@ EXCEPT !.display = "block", !.visibility = "visible",
                                          !.opacity = "1"],
                      !.childNodes = [k \in DOMAIN node.childNodes |-> Shown(node.childNodes[k])]]

\* no element from the root down to the one the node was made from has a
\* non-renderable style
AllRenderableAbove(origin) ==
    LET elements == ElementsOf(arg.rootElement)
    IN \A i \in DOMAIN elements :
          IsWithin(origin[1], elements[i].key) => isRenderable(elements[i].style)

\* the elements and texts the nodes of a snapshot were made from, root first
Origins(tree) ==
    LET nodes == NodesOf(tree)
    IN [i \in DOMAIN nodes |-> <<nodes[i].origin, nodes[i].kind>>]

C19_IgnoredTagsSkipped ==
    Converted =>
      LET elements == ElementsOf(arg.rootElement)
          nodes == NodesOf(obs.simpleTree)
      IN /\ \A i \in DOMAIN elements :
              elements[i].tagName \in IGNORED_TAGS
                 => ~HasNodeWithin(obs.simpleTree, elements[i])
         /\ \A i \in DOMAIN nodes :
              nodes[i].tagName \notin {ToLower(tag) : tag \in IGNORED_TAGS}

\* the lines a text node is laid out on: the tops of its characters
LineTops(textNode) == {textNode.rects[i].top : i \in Measured(textNode)}

\* what the lines of a text node carry between them: its content from the
\* first character that has an area
TextCarried(textNode) ==
    IF Measured(textNode) = {} THEN ""
    ELSE SubSeq(textNode.textContent,
                CHOOSE i \in Measured(textNode) : \A j \in Measured(textNode) : i <= j,
                Len(textNode.textContent))

RECURSIVE ContentsOf(_)
ContentsOf(textNodes) ==
    IF Len(textNodes) = 0 THEN ""
    ELSE Head(textNodes).text.content \o ContentsOf(Tail(textNodes))

RECURSIVE CarriedBy(_)
CarriedBy(texts) ==
    IF Len(texts) = 0 THEN "" ELSE TextCarried(Head(texts)) \o CarriedBy(Tail(texts))

RECURSIVE LineCount(_)
LineCount(texts) ==
    IF Len(texts) = 0 THEN 0 ELSE Cardinality(LineTops(Head(texts))) + LineCount(Tail(texts))

\* C20: the children of a Box node are the lines of the texts of its
\* element, in the order of the texts and from the first line to the last
\* within a text, and after all of them the nodes of its element children in
\* document order.
C20_TextsBeforeElements ==
    Converted =>
      \A i \in DOMAIN BoxNodes :
         LET n == BoxNodes[i]
             e == ElementOf(n)
             texts == SelectSeq(e.childNodes, LAMBDA c : c.kind = "text")
             below == SelectSeq(e.childNodes,
                                LAMBDA c : c.kind = "element" /\ HasOwnNode(n, c))
             lines == SelectSeq(n.children, LAMBDA c : c.kind = "text")
             others == SelectSeq(n.children, LAMBDA c : c.kind # "text")
         IN /\ n.children = lines \o others
            /\ Len(lines) = LineCount(texts)
            /\ ContentsOf(lines) = CarriedBy(texts)
            /\ [k \in DOMAIN others |-> others[k].origin] = [k \in DOMAIN below |-> below[k].key]

\* a box was captured whose element has an element ahead of its two texts
\* and one between them: its children are three lines and then two boxes
C20_Witness ==
    /\ Converted /\ ~ret.threw
    /\ \E i \in DOMAIN BoxNodes :
         LET n == BoxNodes[i]
         IN /\ Len(ElementOf(n).childNodes) >= 4
            /\ ElementOf(n).childNodes[1].kind = "element"
            /\ ElementOf(n).childNodes[2].kind = "text"
            /\ Len(n.children) = 5
            /\ n.children[3].kind = "text" /\ n.children[3].text.content = "cd"
            /\ n.children[4].kind = "box" /\ n.children[5].kind = "box"

\* the node has an id the program made up: every Icon and Text node, and the
\* Box node of an element without an id attribute
HasGeneratedId(node) == node.kind \in {"icon", "text"} \/ ElementOf(node).id = ""

\* C21: in one snapshot tree an id the program made up is the id of no
\* other node, be that one made up too or taken from an id attribute.
C21_NodeIdsDistinct ==
    Converted =>
      LET nodes == NodesOf(obs.simpleTree)
      IN \A i, j \in DOMAIN nodes :
            (i # j /\ HasGeneratedId(nodes[i])) => nodes[i].id # nodes[j].id

\* C23: every stop of a gradient the linear-gradient parser returned has an
\* offset from 0 to 1, and when the background-image holds no percentage
\* the k-th of n stops has the offset (k - 1) / (n - 1).
C23_OffsetsInUnitRange ==
    (op = "parseFill" /\ obs.gradient # Null) =>
      LET stops == obs.gradient.stops
      IN /\ \A k \in DOMAIN stops : stops[k].offset >= 0 /\ stops[k].offset <= SCALE
         /\ ~Includes(arg.style.backgroundImage, "%") =>
              \A k \in DOMAIN stops :
                 stops[k].offset = ((k - 1) * SCALE) \div (Len(stops) - 1)

\* the ids the fill, filter and clip-path attributes of a document refer to,
\* by the place of the reference
References(document) ==
    [i \in {r \in Occurrences("=\"url(#", document) :
              \E name \in {" fill", " filter", " clip-path"} :
                 r > Len(name) /\ SubSeq(document, r - Len(name), r - 1) = name} |->
       SubSeq(document, i + 7, IndexOfFrom(document, ")", i) - 1)]

\* the ids the elements of the definitions section of a document are
\* defined with, by the place of the id attribute
Definitions(document) ==
    LET section == IF Includes(document, "<defs>")
                   THEN SubSeq(document, IndexOf(document, "<defs>"),
                               IndexOf(document, "</defs>"))
                   ELSE ""
    IN [i \in Occurrences(" id=\"", section) |->
          SubSeq(section, i + 5, IndexOfFrom(section, "\"", i + 5) - 1)]

\* C27: every fill, filter and clip-path reference of a document names one
\* definition of its definitions section and no more, every definition
\* registered in the RenderContext is referred to by one element and no
\* more, and the definitions registered are as many as gradientIndex and
\* filterIndex together.
C27_ReferencesResolve ==
    (Converted /\ ~ret.threw) =>
      LET refs == References(ret.value)
          defined == Definitions(ret.value)
          defs == obs.context.defs
      IN /\ \A i \in DOMAIN refs :
               Cardinality({d \in DOMAIN defined : defined[d] = refs[i]}) = 1
         /\ \A k \in DOMAIN defs :
               Cardinality({i \in DOMAIN refs : refs[i] = DefId(defs[k])}) = 1
         /\ Len(defs) = obs.context.gradientIndex + obs.context.filterIndex

\* a document referring to a gradient, a shadow filter and a clip path
C27_Witness ==
    /\ Converted
    /\ ~ret.threw
    /\ \E i, j, k \in DOMAIN References(ret.value) :
          /\ StartsWith(References(ret.value)[i], "gradient-")
          /\ StartsWith(References(ret.value)[j], "shadow-")
          /\ StartsWith(References(ret.value)[k], "clip-")

(***************************************************************************)
(* collectTextNodes on its own: one text node under a paragraph, laid out  *)
(* by the host on one, two or three lines.                                 *)
(***************************************************************************)

TextContentSample == {"Hello", " Hello ", "Hello world", "ab  cd", "a b c ", "\n x", "  "}

\* the most line breaks the host puts into a text node
MaxWraps == 2

\* A text node on a slope: every character lies 0.3 lower than the one
\* before it.
Sloping(content) ==
    [kind |-> "text", textContent |-> content,
     rects |-> [i \in 1..Len(content) |->
                  [left |-> Num(12) + (i - 1) * Num(8),
                   top |-> Num(12) + (i - 1) * ((3 * SCALE) \div 10),
                   width |-> Num(8), height |-> Num(18)]]]

TextLayouts ==
    UNION {{LaidOut(content, wraps, collapsed, nudge) :
              wraps \in {w \in SUBSET (2..Len(content)) : Cardinality(w) <= MaxWraps},
              collapsed \in BOOLEAN, nudge \in {0, (2 * SCALE) \div 5}}
           \cup {Sloping(content)} :
           content \in TextContentSample}

InitText ==
    /\ nodeCounter = 0
    /\ \E textNode \in TextLayouts :
          dom = Element("P", "", "", Rect(10, 10, 120, 64), BaseStyle, <<textNode>>)
    /\ op = "init"
    /\ arg = [rootRect |-> Rect(0, 0, 200, 100)]
    /\ ret = NoValue
    /\ obs = NoValue
    /\ app = NoValue

\* collectTextNodes(dom, getComputedStyle(dom), arg.rootRect); obs keeps the
\* lines splitTextByVisualLines returned for the text node.
CollectTextNodesCall ==
    /\ op = "init"
    /\ op' = "collectTextNodes"
    /\ LET collected == collectTextNodes(dom, dom.style, arg.rootRect, nodeCounter)
       IN /\ ret' = collected.nodes
          /\ nodeCounter' = collected.counter
    /\ obs' = [lineSegments |-> splitTextByVisualLines(dom.childNodes[1])]
    /\ UNCHANGED <<dom, arg, app>>

NextText == CollectTextNodesCall

SpecText == InitText /\ [][NextText]_vars

\* all characters with an area share one top within the tolerance
OnOneLine(textNode) ==
    \A i, j \in Measured(textNode) :
        Abs(textNode.rects[i].top - textNode.rects[j].top) <= SCALE \div 2

\* s with every run of white space made one space
RECURSIVE CollapseFrom(_, _)
CollapseFrom(s, i) ==
    IF i > Len(s) THEN ""
    ELSE IF Char(s, i) \in WhiteSpace
         THEN " " \o CollapseFrom(s, SkipWhile(s, i, WhiteSpace))
    ELSE SubSeq(s, i, SkipUntil(s, i, WhiteSpace) - 1)
         \o CollapseFrom(s, SkipUntil(s, i, WhiteSpace))

Collapsed(s) == Trim(CollapseFrom(s, 1))

RECURSIVE Concatenated(_)
Concatenated(lines) ==
    IF Len(lines) = 0 THEN "" ELSE Head(lines).text \o Concatenated(Tail(lines))

\* C12: a text node laid out on one line gives exactly one line, and that
\* line and the TextNode made from it carry the trimmed text.
C12_SingleLineTrimmed ==
    (op = "collectTextNodes" /\ Measured(dom.childNodes[1]) # {}
       /\ OnOneLine(dom.childNodes[1])) =>
      /\ Len(obs.lineSegments) = 1
      /\ obs.lineSegments[1].text = Trim(dom.childNodes[1].textContent)
      /\ Len(ret) = 1
      /\ ret[1].text.content = Trim(dom.childNodes[1].textContent)

\* C13: a text node laid out on two or more lines gives at least two lines,
\* from top to bottom, whose texts put together are the trimmed content with
\* every run of white space collapsed.
C13_LinesReproduceContent ==
    (op = "collectTextNodes" /\ ~OnOneLine(dom.childNodes[1])) =>
      /\ Len(obs.lineSegments) >= 2
      /\ \A k \in 1..(Len(obs.lineSegments) - 1) :
            obs.lineSegments[k].rect.top < obs.lineSegments[k + 1].rect.top
      /\ Concatenated(obs.lineSegments) = Collapsed(dom.childNodes[1].textContent)

(***************************************************************************)
(* Conversions of one bordered box: the four sides of the border are       *)
(* written with the width, colour and opacity they stand for.              *)
(***************************************************************************)

BorderSideSample ==
    { [width |-> "1px", style |-> "solid", color |-> "rgb(255, 0, 0)",
       px |-> Num(1), hex |-> "#ff0000", alpha |-> Num(1)],
      [width |-> "1px", style |-> "dashed", color |-> "rgb(255, 0, 0)",
       px |-> Num(1), hex |-> "#ff0000", alpha |-> Num(1)],
      [width |-> "0px", style |-> "solid", color |-> "rgb(255, 0, 0)",
       px |-> 0, hex |-> "#ff0000", alpha |-> Num(1)],
      [width |-> "1px", style |-> "none", color |-> "rgb(255, 0, 0)",
       px |-> Num(1), hex |-> "#ff0000", alpha |-> Num(1)],
      [width |-> "1.5px", style |-> "solid", color |-> "rgb(255, 0, 0)",
       px |-> Num(3) \div 2, hex |-> "#ff0000", alpha |-> Num(1)],
      [width |-> "1px", style |-> "solid", color |-> "rgba(255, 0, 0, 0.5)",
       px |-> Num(1), hex |-> "#ff0000", alpha |-> Num(1) \div 2],
      [width |-> "1px", style |-> "solid", color |-> "rgb(0, 0, 255)",
       px |-> Num(1), hex |-> "#0000ff", alpha |-> Num(1)] }

\* the borders of the boxes: sides of one kind or of two
BorderSample ==
    {sides \in [{"Top", "Right", "Bottom", "Left"} -> BorderSideSample] :
        Cardinality({sides[side] : side \in DOMAIN sides}) <= 2}

\* the computed style of a box with these sides
BorderedStyle(sides) ==
    [BaseStyle EXCEPT
       !.borderTopWidth = sides["Top"].width, !.borderTopStyle = sides["Top"].style,
       !.borderTopColor = sides["Top"].color,
       !.borderRightWidth = sides["Right"].width, !.borderRightStyle = sides["Right"].style,
       !.borderRightColor = sides["Right"].color,
       !.borderBottomWidth = sides["Bottom"].width, !.borderBottomStyle = sides["Bottom"].style,
       !.borderBottomColor = sides["Bottom"].color,
       !.borderLeftWidth = sides["Left"].width, !.borderLeftStyle = sides["Left"].style,
       !.borderLeftColor = sides["Left"].color]

InitBorders ==
    /\ nodeCounter = 0
    /\ \E sides \in BorderSample :
          dom = WithKeys(Element("DIV", "", "", Rect(0, 0, 100, 50), BorderedStyle(sides), <<>>),
                         "r")
    /\ op = "init"
    /\ arg = NoValue
    /\ ret = NoValue
    /\ obs = NoValue
    /\ app = NoValue

SpecBorders == InitBorders /\ [][ConvertMounted]_vars

\* the sides the converted box was written with
SidesOf(style) ==
    [side \in {"Top", "Right", "Bottom", "Left"} |->
       CHOOSE s \in BorderSideSample :
           /\ s.width = style["border" \o side \o "Width"]
           /\ s.style = style["border" \o side \o "Style"]
           /\ s.color = style["border" \o side \o "Color"]]

\* a side is dropped when its width is not positive or its style is none
Dropped(s) == s.px <= 0 \/ s.style = "none"

\* the side as kept, or the fallback of no width for a dropped side
SideOrFallback(s) ==
    IF Dropped(s) THEN [width |-> 0, style |-> "solid", color |-> "#000000", opacity |-> Num(1)]
    ELSE [width |-> s.px, style |-> s.style, color |-> s.hex, opacity |-> s.alpha]

\* the path of the root box in the document carries a stroke
RootPathStroked ==
    Occurs(" stroke=\"", TagAt(ret.value, IndexOf(ret.value, "<path ")))

\* C15: the border set of a box is null exactly when all four sides are
\* dropped, and has the fallback of no width for each dropped side
\* otherwise; the path carries a stroke exactly when the border set is not
\* null and its four sides agree in width, colour and opacity with a width
\* above 0, so never when some sides are kept and others dropped.
C15_StrokeIffUniform ==
    (Converted /\ ~ret.threw) =>
      LET sides == SidesOf(arg.rootElement.style)
          set == [side \in DOMAIN sides |-> SideOrFallback(sides[side])]
          borders == obs.simpleTree.borders
          uniform == \A a, b \in DOMAIN set :
                        /\ set[a].width = set[b].width
                        /\ set[a].color = set[b].color
                        /\ set[a].opacity = set[b].opacity
      IN /\ borders = Null <=> \A side \in DOMAIN sides : Dropped(sides[side])
         /\ borders # Null =>
              borders = [top |-> set["Top"], right |-> set["Right"],
                         bottom |-> set["Bottom"], left |-> set["Left"]]
         /\ RootPathStroked <=> (borders # Null /\ uniform /\ set["Top"].width > 0)
         /\ (\E a, b \in DOMAIN sides : Dropped(sides[a]) /\ ~Dropped(sides[b]))
              => ~RootPathStroked

\* a document was returned with a stroke for a box whose sides differ in
\* style alone
C15_Witness ==
    /\ Converted /\ ~ret.threw
    /\ RootPathStroked
    /\ arg.rootElement.style.borderTopStyle = "dashed"
    /\ arg.rootElement.style.borderLeftStyle = "solid"
    /\ obs.simpleTree.borders # Null

\* The character a line is established by, for a character with an area:
\* itself when it is the first with an area or when its top is more than 0.5
\* from the top of the character that established the line of the
\* character with an area before it, else that character.
RECURSIVE Establishes(_, _)
Establishes(textNode, i) ==
    LET before == {j \in Measured(textNode) : j < i}
        onLineOf(start) ==
            IF Abs(textNode.rects[i].top - textNode.rects[start].top) > SCALE \div 2
            THEN i ELSE start
    IN IF before = {} THEN i
       ELSE onLineOf(Establishes(textNode, CHOOSE j \in before : \A k \in before : k <= j))

\* the characters at which a line starts
LineStarts(textNode) == {i \in Measured(textNode) : Establishes(textNode, i) = i}

\* C22: the lines of a text node start at its first character with an area
\* and at every character with an area whose top is more than 0.5 from the
\* top its line was established with: there is one line per such start and
\* none for a text without a character with an area.  A line runs up to the
\* next start, and its box is the box around its characters with an area,
\* the others leaving it as it is.
C22_LinesFollowTopChanges ==
    op = "collectTextNodes" =>
      LET textNode == dom.childNodes[1]
          starts == LineStarts(textNode)
          lines == obs.lineSegments
          startOf(k) == CHOOSE i \in starts : Cardinality({j \in starts : j < i}) = k - 1
          endOf(k) == IF k = Cardinality(starts) THEN Len(textNode.textContent)
                      ELSE startOf(k + 1) - 1
          members(k) == {i \in Measured(textNode) : Establishes(textNode, i) = startOf(k)}
      IN /\ Len(lines) = Cardinality(starts)
         /\ Measured(textNode) # {} =>
              Len(lines) = 1 + Cardinality({i \in starts : \E j \in starts : j < i})
         /\ \A k \in DOMAIN lines :
              /\ lines[k].text = SubSeq(textNode.textContent, startOf(k), endOf(k))
              /\ \A i \in members(k) :
                   /\ lines[k].rect.left <= textNode.rects[i].left
                   /\ lines[k].rect.top <= textNode.rects[i].top
                   /\ lines[k].rect.right >= textNode.rects[i].left + textNode.rects[i].width
                   /\ lines[k].rect.bottom >= textNode.rects[i].top + textNode.rects[i].height
              /\ \E i \in members(k) : lines[k].rect.left = textNode.rects[i].left
              /\ \E i \in members(k) : lines[k].rect.top = textNode.rects[i].top
              /\ \E i \in members(k) :
                    lines[k].rect.right = textNode.rects[i].left + textNode.rects[i].width
              /\ \E i \in members(k) :
                    lines[k].rect.bottom = textNode.rects[i].top + textNode.rects[i].height

\* a text on a slope was split where the tops had drifted more than 0.5 from
\* the top of the line, no two neighbours being that far apart
C22_Witness ==
    /\ op = "collectTextNodes"
    /\ Len(obs.lineSegments) >= 3
    /\ \A i \in 2..Len(dom.childNodes[1].textContent) :
          Abs(dom.childNodes[1].rects[i].top - dom.childNodes[1].rects[i - 1].top)
             <= SCALE \div 2

\* a text with collapsed white space at a line break was split in two
C22_WitnessCollapsed ==
    /\ op = "collectTextNodes"
    /\ Len(obs.lineSegments) = 2
    /\ \E i \in 2..Len(dom.childNodes[1].textContent) :
          /\ i \notin Measured(dom.childNodes[1])
          /\ dom.childNodes[1].rects[i].top # dom.childNodes[1].rects[1].top

(***************************************************************************)
(* The markup of node strings: a paragraph with a class, a font family and *)
(* a text that hold the characters of markup.                              *)
(***************************************************************************)
ClassNameSample == {"lead", "a&b", "[&>p]:m-1", "max-[<640px]", "say\"hi\"", "<&\">"}
ContentSample == {"ok", "a&b", "x<y", "p>q", "say \"hi\"", "</text>&amp;"}
FontFamilySample == {"\"Inter\", sans-serif", "B&W", "\"a<b\"", "'p>q', serif"}

InitEscape ==
    /\ nodeCounter = 0
    /\ \E className \in ClassNameSample, content \in ContentSample,
          fontFamily \in FontFamilySample :
          dom = WithKeys(Element("P", "", className, Rect(0, 0, 100, 50),
                                 [BaseStyle EXCEPT !.fontFamily = fontFamily],
                                 <<TextLine(content, 10, 10, 8, 18)>>),
                         "r")
    /\ op = "init"
    /\ arg = NoValue
    /\ ret = NoValue
    /\ obs = NoValue
    /\ app = NoValue

SpecEscape == InitEscape /\ [][ConvertMounted]_vars

\* the string with & < > and, in attribute values, " written as entities
RECURSIVE Escaped(_, _)
Escaped(value, inAttribute) ==
    LET entity(c) == CASE c = "&" -> "&amp;"
                       [] c = "<" -> "&lt;"
                       [] c = ">" -> "&gt;"
                       [] c = "\"" /\ inAttribute -> "&quot;"
                       [] OTHER -> c
    IN IF value = "" THEN ""
       ELSE entity(Char(value, 1)) \o Escaped(SubSeq(value, 2, Len(value)), inAttribute)

\* C25: the document holds the content of every Text node with & < and >
\* written as entities, and the class, the tag name, the font family, the
\* font style and the font weight of every node as attribute values with
\* those three and the double quote written as entities.
C25_NodeStringsEscaped ==
    (Converted /\ ~ret.threw) =>
      LET nodes == NodesOf(obs.simpleTree)
          attribute(name, value) ==
              Includes(ret.value, " " \o name \o "=\"" \o Escaped(value, TRUE) \o "\"")
      IN \A i \in DOMAIN nodes :
            /\ nodes[i].className # "" => attribute("class", nodes[i].className)
            /\ attribute("data-tag", nodes[i].tagName)
            /\ nodes[i].kind = "text" =>
                 /\ Includes(ret.value,
                             ">" \o Escaped(nodes[i].text.content, FALSE) \o "</text>")
                 /\ attribute("font-family", nodes[i].text.fontFamily)
                 /\ attribute("font-style", nodes[i].text.fontStyle)
                 /\ attribute("font-weight", nodes[i].text.fontWeight)

(***************************************************************************)
(* parseSingleShadow on its own: the entries are written from their        *)
(* lengths and their colour, so that the expected shadow is known          *)
(* independently of the parser.                                            *)
(***************************************************************************)
\* lengths: the text and the pixels it denotes
LengthSample ==
    { [text |-> "0", px |-> 0], [text |-> "4px", px |-> Num(4)], [text |-> "8", px |-> Num(8)] }
\* the lengths of an entry: offsetX, offsetY and, when given, blur and spread
LengthListSample ==
    UNION {[1..n -> LengthSample] : n \in 2..4}
\* colours: the text, empty for an entry without a colour
ShadowColorSample == {"", "#f00", "rgba(0, 0, 255, 0.5)"}

ShadowInputs ==
    { [value |-> (IF inset THEN "inset " ELSE "")
                 \o JoinWith([i \in DOMAIN lengths |-> lengths[i].text], " ")
                 \o (IF colour = "" THEN "" ELSE " " \o colour),
       inset |-> inset, lengths |-> lengths, colour |-> colour] :
        inset \in BOOLEAN, lengths \in LengthListSample, colour \in ShadowColorSample }

InitShadow ==
    /\ nodeCounter = 0
    /\ dom = NullHandle
    /\ op = "init"
    /\ arg \in ShadowInputs
    /\ ret = NoValue
    /\ obs = NoValue
    /\ app = NoValue

\* parseSingleShadow(arg.value)
ParseSingleShadowCall ==
    /\ op = "init"
    /\ op' = "parseSingleShadow"
    /\ ret' = parseSingleShadow(arg.value)
    /\ UNCHANGED <<nodeCounter, dom, arg, obs, app>>

SpecShadow == InitShadow /\ [][ParseSingleShadowCall]_vars

\* C28: an entry without a colour is parsed as a shadow of colour #000000
\* at opacity 0.25 whose offsetX, offsetY, blur and spread are its lengths
\* in their order, blur and spread being 0 when not given.
C28_DefaultShadowColour ==
    (op = "parseSingleShadow" /\ arg.colour = "") =>
      LET px(i) == IF i <= Len(arg.lengths) THEN arg.lengths[i].px ELSE 0
      IN /\ ret # Null
         /\ ret.color = "#000000"
         /\ ret.opacity = SCALE \div 4
         /\ ret.offsetX = px(1)
         /\ ret.offsetY = px(2)
         /\ ret.blur = px(3)
         /\ ret.spread = px(4)

(***************************************************************************)
(* Emission, one call of renderNode at a time                              *)
(***************************************************************************)
\* The RenderContext renderBoxNode has when it comes to the children of
\* node: resolveFill, resolveShadows and ensureClipPath have run.
boxContext(node, context) ==
    LET fill == resolveFill(node.background, context)
        filter == resolveShadows(node.shadows, fill.context)
    IN IF node.overflowHidden THEN ensureClipPath(node, filter.context).context
       ELSE filter.context

\* The state of htmlToSvg before renderNode(simpleTree, context): the tree
\* of the snapshot, a new RenderContext, and the calls of renderNode that
\* are to come, the next one first.
InitEmit ==
    /\ dom \in Trees
    /\ ~rootHasNoLayout(dom.rect)
    /\ \E snap \in {captureRoot(dom, dom.rect, 0)} :
          /\ snap.node # Null
          /\ nodeCounter = snap.counter
          /\ arg = [simpleTree |-> snap.node]
          /\ ret = [pending |-> <<snap.node>>, context |-> newRenderContext]
    /\ op = "captureRoot"
    /\ obs = NoValue
    /\ app = NoValue

\* One call of renderNode up to the calls for the children of its node,
\* which come next and in their order.  The call writes to the context
\* only: no statement of renderNode, renderTextNode, renderIconNode and
\* renderBoxNode assigns to a node.
RenderNodeCall ==
    /\ ret.pending # <<>>
    /\ LET node == Head(ret.pending)
       IN ret' = IF node.kind = "box"
                 THEN [pending |-> node.children \o Tail(ret.pending),
                       context |-> boxContext(node, ret.context)]
                 ELSE [pending |-> Tail(ret.pending), context |-> ret.context]
    /\ op' = "renderNode"
    /\ UNCHANGED <<nodeCounter, dom, arg, obs, app>>

SpecEmit == InitEmit /\ [][RenderNodeCall]_vars

\* C24: a call of renderNode leaves the node tree as it was; of the
\* RenderContext it leaves the counters no smaller and the definition list
\* with what it held in front; and the calls over the whole tree leave the
\* context that renderNode leaves for the root.
C24_EmissionOnlyExtendsContext ==
    [][/\ arg'.simpleTree = arg.simpleTree
       /\ ret'.context.gradientIndex >= ret.context.gradientIndex
       /\ ret'.context.filterIndex >= ret.context.filterIndex
       /\ Len(ret'.context.defs) >= Len(ret.context.defs)
       /\ SubSeq(ret'.context.defs, 1, Len(ret.context.defs)) = ret.context.defs
       /\ ret'.pending = <<>>
            => ret'.context = renderNode(arg.simpleTree, newRenderContext).context]_vars

\* the tree is emitted, with a gradient, a filter and a clip path defined
C24_Witness ==
    /\ op = "renderNode"
    /\ ret.pending = <<>>
    /\ ret.context.gradientIndex > 0
    /\ ret.context.filterIndex > 1
    /\ Len(ret.context.defs) > 2
    /\ \E k \in DOMAIN ret.context.defs : StartsWith(ret.context.defs[k], "<clipPath")

(***************************************************************************)
(* The host: the App component and its generate handler                    *)
(*                                                                         *)
(* The regular expressions of the host are operators of (s, low, i): the   *)
(* index at which the match starting at index i of s ends, 0 when there is *)
(* none; low is s in lower case, read where the expression has the i flag. *)
(***************************************************************************)
Quotes == {"\"", "'"}

\* /<!doctype[^>]*>/gi
DOCTYPE_REGEX(s, low, i) ==
    IF StartsAt(low, i, "<!doctype") THEN IndexOfFrom(s, ">", i + 9) ELSE 0

\* The block expressions /<tag[^>]*>([\s\S]*?)<\/tag>/i tried at index i:
\* [gt, close, end] are the indexes of the > of the opening tag, of the
\* closing tag and of the end of the match; end is 0 when there is no match.
BlockAt(s, low, i, tag) ==
    LET closing == "</" \o tag \o ">"
        closed(gt, close) ==
            [gt |-> gt, close |-> close,
             end |-> IF close = 0 THEN 0 ELSE close + Len(closing) - 1]
        opened(gt) == closed(gt, IF gt = 0 THEN 0 ELSE IndexOfFrom(low, closing, gt + 1))
    IN IF StartsAt(low, i, "<" \o tag)
       THEN opened(IndexOfFrom(s, ">", i + Len(tag) + 1))
       ELSE [gt |-> 0, close |-> 0, end |-> 0]

\* /<script[\s\S]*?>[\s\S]*?<\/script>/gi
SCRIPT_REGEX(s, low, i) == BlockAt(s, low, i, "script").end

\* /<style[^>]*>([\s\S]*?)<\/style>/gi
STYLE_REGEX(s, low, i) == BlockAt(s, low, i, "style").end

\* /<link[^>]+rel=["']?stylesheet["']?[^>]*>/gi
STYLESHEET_LINK_REGEX(s, low, i) ==
    LET \* the tag ends at gt: rel= stands after <link and one character more
        rel(gt) ==
            \E k \in (i + 6)..(gt - 1) :
               /\ StartsAt(low, k, "rel=")
               /\ \/ StartsAt(low, k + 4, "stylesheet")
                  \/ Char(low, k + 4) \in Quotes /\ StartsAt(low, k + 5, "stylesheet")
        tag(gt) == IF gt # 0 /\ rel(gt) THEN gt ELSE 0
    IN IF StartsAt(low, i, "<link") THEN tag(IndexOfFrom(s, ">", i + 5)) ELSE 0

\* the matches of an expression in s from index from on, each [start, end]
RECURSIVE MatchesFrom(_, _, _, _)
MatchesFrom(name, s, low, from) ==
    LET end(i) == CASE name = "doctype" -> DOCTYPE_REGEX(s, low, i)
                    [] name = "script" -> SCRIPT_REGEX(s, low, i)
                    [] name = "style" -> STYLE_REGEX(s, low, i)
                    [] name = "link" -> STYLESHEET_LINK_REGEX(s, low, i)
        starts == {i \in from..Len(s) : Char(s, i) = "<" /\ end(i) # 0}
        found(i) == <<[start |-> i, end |-> end(i)]>> \o MatchesFrom(name, s, low, end(i) + 1)
    IN IF starts = {} THEN <<>>
       ELSE found(CHOOSE i \in starts : \A j \in starts : i <= j)

\* s.replace(expression, '') for the matches found
RECURSIVE Without(_, _, _)
Without(s, matches, from) ==
    IF matches = <<>> THEN SubSeq(s, from, Len(s))
    ELSE SubSeq(s, from, matches[1].start - 1) \o Without(s, Tail(matches), matches[1].end + 1)

\* the texts of the matches
Matched(s, matches) == [k \in DOMAIN matches |-> SubSeq(s, matches[k].start, matches[k].end)]

\* match.match(/<script[^>]*src\s*\=\s*['"](https:\/\/cdn\.tailwindcss\.com[^'"}]*)['"][^>]*>/i):
\* the URL captured, "" when the script is no Tailwind CDN script
cdnMatch(match) ==
    LET low == ToLower(match)
        \* the quote that opens the URL of the src at index k, 0 when k is no such src
        quote(k) ==
            LET eq == SkipWhile(match, k + 3, WhiteSpace)
                q == SkipWhile(match, eq + 1, WhiteSpace)
                e == SkipUntil(match, q + 28, Quotes \cup {"}"})
            IN IF /\ StartsAt(low, k, "src")
                  /\ IndexOfFrom(match, ">", 8) \notin 1..(k - 1)
                  /\ StartsAt(match, eq, "=")
                  /\ q <= Len(match) /\ Char(match, q) \in Quotes
                  /\ StartsAt(low, q + 1, "https://cdn.tailwindcss.com")
                  /\ e <= Len(match) /\ Char(match, e) \in Quotes
                  /\ IndexOfFrom(match, ">", e + 1) # 0
               THEN q ELSE 0
        srcs == {k \in 8..Len(match) : quote(k) # 0}
        url(q) == SubSeq(match, q + 1, SkipUntil(match, q + 28, Quotes \cup {"}"}) - 1)
    IN IF srcs = {} THEN ""
       ELSE url(quote(CHOOSE k \in srcs : \A j \in srcs : k <= j))

\* match.match(/tailwind\.config\s*\=\s*\{[\s\S]*?\}/i): the text matched,
\* "" when there is none
configMatch(match) ==
    LET low == ToLower(match)
        \* the index of the } that ends the assignment at index k, 0 when k is none
        end(k) ==
            LET eq == SkipWhile(match, k + 15, WhiteSpace)
                brace == SkipWhile(match, eq + 1, WhiteSpace)
            IN IF /\ StartsAt(low, k, "tailwind.config")
                  /\ StartsAt(match, eq, "=")
                  /\ StartsAt(match, brace, "{")
               THEN IndexOfFrom(match, "}", brace + 1) ELSE 0
        starts == {k \in 1..Len(match) : end(k) # 0}
        text(k) == SubSeq(match, k, end(k))
    IN IF starts = {} THEN ""
       ELSE text(CHOOSE k \in starts : \A j \in starts : k <= j)

\* the replace callback of SCRIPT_REGEX over the scripts in their order:
\* [tailwindCdnUrl, tailwindConfigInline], "" standing for undefined
RECURSIVE ScriptSettings(_, _)
ScriptSettings(scripts, settings) ==
    IF scripts = <<>> THEN settings
    ELSE ScriptSettings(
           Tail(scripts),
           IF cdnMatch(scripts[1]) # ""
           THEN [settings EXCEPT !.tailwindCdnUrl = cdnMatch(scripts[1])]
           ELSE IF configMatch(scripts[1]) # ""
                THEN [settings EXCEPT !.tailwindConfigInline = configMatch(scripts[1])]
                ELSE settings)

\* match.match(HREF_REGEX)?.[2]?.trim() with /href\s*=\s*("|')(.*?)\1/i,
\* "" when there is no match
HREF_REGEX(match) ==
    LET low == ToLower(match)
        \* the quote that opens the value of the href at index k, 0 when k is none
        quote(k) ==
            LET eq == SkipWhile(match, k + 4, WhiteSpace)
                q == SkipWhile(match, eq + 1, WhiteSpace)
            IN IF /\ StartsAt(low, k, "href")
                  /\ StartsAt(match, eq, "=")
                  /\ q <= Len(match) /\ Char(match, q) \in Quotes
                  /\ IndexOfFrom(match, Char(match, q), q + 1) # 0
                  /\ IndexOfFrom(match, "\n", q + 1)
                        \notin 1..IndexOfFrom(match, Char(match, q), q + 1)
               THEN q ELSE 0
        hrefs == {k \in 1..Len(match) : quote(k) # 0}
        value(q) == Trim(SubSeq(match, q + 1, IndexOfFrom(match, Char(match, q), q + 1) - 1))
    IN IF hrefs = {} THEN ""
       ELSE value(quote(CHOOSE k \in hrefs : \A j \in hrefs : k <= j))

\* bodyMatch?.[1]?.trim() ?? htmlMatch?.[1]?.trim() ?? withoutStylesheets.trim()
\* with BODY_REGEX = /<body[^>]*>([\s\S]*?)<\/body>/i and HTML_REGEX alike
markupOf(withoutStylesheets) ==
    LET low == ToLower(withoutStylesheets)
        blocks(tag) ==
            {i \in 1..Len(low) : BlockAt(withoutStylesheets, low, i, tag).end # 0}
        first(tag) == BlockAt(withoutStylesheets, low,
                              CHOOSE i \in blocks(tag) : \A j \in blocks(tag) : i <= j, tag)
        inner(block) == Trim(SubSeq(withoutStylesheets, block.gt + 1, block.close - 1))
    IN IF blocks("body") # {} THEN inner(first("body"))
       ELSE IF blocks("html") # {} THEN inner(first("html"))
       ELSE Trim(withoutStylesheets)

\* sanitizeHtmlInput from const withoutStyles on.
sanitizedOfStyles(withoutStyles, styleBlocks, settings) ==
    LET links == MatchesFrom("link", withoutStyles, ToLower(withoutStyles), 1)
        stylesheetLinks ==
            SelectSeq([k \in DOMAIN links |-> HREF_REGEX(Matched(withoutStyles, links)[k])],
                      LAMBDA href : href # "")
        linkImports == [k \in DOMAIN stylesheetLinks |->
                          "@import url('" \o stylesheetLinks[k] \o "');"]
    IN [markup |-> markupOf(Without(withoutStyles, links, 1)),
        inlineCss |-> JoinWith(linkImports \o styleBlocks, "\n"),
        stylesheetLinks |-> stylesheetLinks,
        tailwindCdnUrl |-> settings.tailwindCdnUrl,
        tailwindConfigInline |-> settings.tailwindConfigInline]

\* sanitizeHtmlInput from const withoutScripts on.
sanitizedOfScripts(withoutScripts, settings) ==
    LET low == ToLower(withoutScripts)
        styles == MatchesFrom("style", withoutScripts, low, 1)
        css(k) == LET block == BlockAt(withoutScripts, low, styles[k].start, "style")
                  IN Trim(SubSeq(withoutScripts, block.gt + 1, block.close - 1))
    IN sanitizedOfStyles(Without(withoutScripts, styles, 1),
                         SelectSeq([k \in DOMAIN styles |-> css(k)], LAMBDA c : c # ""),
                         settings)

\* sanitizeHtmlInput from const withoutDoctype on.
sanitizedOfDoctype(withoutDoctype) ==
    LET scripts == MatchesFrom("script", withoutDoctype, ToLower(withoutDoctype), 1)
    IN sanitizedOfScripts(Without(withoutDoctype, scripts, 1),
                          ScriptSettings(Matched(withoutDoctype, scripts),
                                         [tailwindCdnUrl |-> "", tailwindConfigInline |-> ""]))

\* The result is a SanitizedMarkup, "" standing for undefined.
sanitizeHtmlInput(value) ==
    LET withoutDoctype(trimmed) ==
            Without(trimmed, MatchesFrom("doctype", trimmed, ToLower(trimmed), 1), 1)
    IN IF Trim(value) = ""
       THEN [markup |-> "", inlineCss |-> "", stylesheetLinks |-> <<>>,
             tailwindCdnUrl |-> "", tailwindConfigInline |-> ""]
       ELSE sanitizedOfDoctype(withoutDoctype(Trim(value)))

\* what the user pastes
HtmlInputSample ==
    { "",
      "<style> p{color:red;} </style>",
      "<!DOCTYPE html><html><head><link rel=\"stylesheet\" href=\"a.css\">"
        \o "<LINK href='b.css' rel=stylesheet><link rel=\"icon\" href=\"i.png\">"
        \o "<style>p{color:red;}</style></head><body><p>Hi</p></body></html>",
      "<script>tailwind.config = {darkMode: 'class'}</script>"
        \o "<script src=\"https://cdn.tailwindcss.com?plugins=forms\"></script>"
        \o "<div class=\"p-4\">Hi</div><script>alert(1)</script>" }


\* tagNames of rewriteCssForSvg
tagNames ==
    <<"div", "span", "p", "h1", "h2", "h3", "h4", "h5", "h6", "section", "article",
      "header", "footer", "nav", "main", "aside", "ul", "ol", "li", "button", "a">>

\* out.replace(re, ...) of rewriteCssForSvg for one tag, from index from on.
\* The expression is built from a template literal, in which \s stands for
\* the letter s: re is /(^|[\n\rs,{])tag([\n\rs,{.:#[]|$)/gi.
RECURSIVE replaceTag(_, _, _, _)
replaceTag(out, low, tag, from) ==
    LET before == {"\n", "\r", "s", ",", "{"}
        after == {"\n", "\r", "s", ",", "{", ".", ":", "#", "["}
        \* the tag stands at index t and p2 matches behind it
        tagAt(t) ==
            /\ StartsAt(low, t, tag)
            /\ \/ t + Len(tag) = Len(out) + 1
               \/ Char(low, t + Len(tag)) \in after
        \* the length of p1 in the match at index j, -1 when there is none
        p1(j) == IF j = 1 /\ tagAt(1) THEN 0
                 ELSE IF Char(low, j) \in before /\ tagAt(j + 1) THEN 1
                 ELSE -1
        starts == {j \in from..Len(out) : p1(j) >= 0}
        \* the match at index j ends at index e
        replaced(j, e) ==
            SubSeq(out, from, j + p1(j) - 1)
            \o ("g[data-tag=\"" \o tag \o "\"], text[data-tag=\"" \o tag \o "\"]")
            \o SubSeq(out, j + p1(j) + Len(tag), e)
            \o replaceTag(out, low, tag, e + 1)
        matched(j) == replaced(j, Min2(j + p1(j) + Len(tag), Len(out)))
    IN IF starts = {} THEN SubSeq(out, from, Len(out))
       ELSE matched(CHOOSE j \in starts : \A k \in starts : j <= k)

\* Whether the expression of rewriteCssForSvg for tag matches in low: marks
\* are the indices of low at which p1 can match, 0 for the start.
tagOccurs(low, tag, marks) ==
    \E j \in marks :
        /\ StartsAt(low, j + 1, tag)
        /\ \/ j + Len(tag) = Len(low)
           \/ Char(low, j + 1 + Len(tag)) \in {"\n", "\r", "s", ",", "{", ".", ":", "#", "["}

marksOf(low) == {0} \cup {j \in 1..Len(low) : Char(low, j) \in {"\n", "\r", "s", ",", "{"}}

\* tagNames.forEach(...) of rewriteCssForSvg from the k-th tag on.  low is
\* out in lower case: what a replacement puts in is in lower case, so the
\* replacement made in low gives the next out in lower case.
RECURSIVE replaceTags(_, _, _, _)
replaceTags(out, low, k, marks) ==
    IF k > Len(tagNames) \/ out = "" \/ marks = {} THEN out
    ELSE IF ~tagOccurs(low, tagNames[k], marks) THEN replaceTags(out, low, k + 1, marks)
    ELSE replaceTags(replaceTag(out, low, tagNames[k], 1),
                     replaceTag(low, low, tagNames[k], 1), k + 1,
                     marksOf(replaceTag(low, low, tagNames[k], 1)))

\* out.replace(/name\s*:\s*([^;]+);/gi, 'to: $1;') from index from on
RECURSIVE replaceProperty(_, _, _, _, _)
replaceProperty(out, low, name, to, from) ==
    LET \* the index of the ; that ends the match at index j, 0 when there is none
        semi(j) ==
            LET colon == SkipWhile(out, j + Len(name), WhiteSpace)
                value == SkipWhile(out, colon + 1, WhiteSpace)
            IN IF StartsAt(low, j, name) /\ StartsAt(out, colon, ":")
               THEN IF StartsAt(out, value, ";")
                    THEN (IF value > colon + 1 THEN value ELSE 0)
                    ELSE IndexOfFrom(out, ";", value)
               ELSE 0
        \* where $1 starts in the match at index j
        group(j) ==
            LET value == SkipWhile(out, SkipWhile(out, j + Len(name), WhiteSpace) + 1,
                                   WhiteSpace)
            IN IF StartsAt(out, value, ";") THEN value - 1 ELSE value
        starts == {j \in from..Len(out) : semi(j) # 0}
        replaced(j) ==
            SubSeq(out, from, j - 1)
            \o (to \o ": " \o SubSeq(out, group(j), semi(j) - 1) \o ";")
            \o replaceProperty(out, low, name, to, semi(j) + 1)
    IN IF starts = {} THEN SubSeq(out, from, Len(out))
       ELSE replaced(CHOOSE j \in starts : \A k \in starts : j <= k)

\* out.replace(/text-align\s*:\s*value\s*;/gi, 'text-anchor: anchor;') from
\* index from on
RECURSIVE replaceTextAlign(_, _, _, _, _)
replaceTextAlign(out, low, value, anchor, from) ==
    LET \* the index of the ; that ends the match at index j, 0 when there is none
        semi(j) ==
            LET colon == SkipWhile(out, j + 10, WhiteSpace)
                word == SkipWhile(out, colon + 1, WhiteSpace)
                end == SkipWhile(out, word + Len(value), WhiteSpace)
            IN IF /\ StartsAt(low, j, "text-align")
                  /\ StartsAt(out, colon, ":")
                  /\ StartsAt(low, word, value)
                  /\ StartsAt(out, end, ";")
               THEN end ELSE 0
        starts == {j \in from..Len(out) : semi(j) # 0}
        replaced(j) ==
            SubSeq(out, from, j - 1) \o ("text-anchor: " \o anchor \o ";")
            \o replaceTextAlign(out, low, value, anchor, semi(j) + 1)
    IN IF starts = {} THEN SubSeq(out, from, Len(out))
       ELSE replaced(CHOOSE j \in starts : \A k \in starts : j <= k)

\* the replacements of rewriteCssForSvg in their order
cssReplacements ==
    << <<"background-color", "fill">>, <<"color", "fill">>, <<"border-color", "stroke">>,
       <<"border-width", "stroke-width">>, <<"outline-color", "stroke">>,
       <<"outline-width", "stroke-width">> >>

\* the replacements from the k-th on; low is out in lower case
RECURSIVE replaceProperties(_, _, _)
replaceProperties(out, low, k) ==
    LET name == cssReplacements[k][1]
        to == cssReplacements[k][2]
    IN IF k > Len(cssReplacements) \/ out = "" THEN out
       ELSE IF replaceProperty(low, low, name, to, 1) = low
            THEN replaceProperties(out, low, k + 1)
       ELSE replaceProperties(replaceProperty(out, low, name, to, 1),
                              replaceProperty(low, low, name, to, 1), k + 1)

rewriteCssForSvg(css) ==
    LET aligned(out) == replaceTextAlign(out, ToLower(out), "center", "middle", 1)
        ended(out) == replaceTextAlign(out, ToLower(out), "right", "end", 1)
        selectors(out) == replaceProperties(out, ToLower(out), 1)
    IN IF css = "" THEN css
       ELSE ended(aligned(selectors(replaceTags(css, ToLower(css), 1, marksOf(ToLower(css))))))

\* how the browser lays out what is mounted: the box of the wrapper and the
\* elements the markup was parsed into
LayoutSample ==
    { [rect |-> Rect(0, 0, 200, 100), content |-> <<>>],
      [rect |-> Rect(0, 0, 200, 0), content |-> <<>>] }

\* The wrapper mountHiddenMarkup leaves in the container, laid out as layout.
mountHiddenMarkup(markup, inlineCss, layout) ==
    LET \* the style element, whose text is not laid out
        styleElement ==
            Element("STYLE", "", "", Rect(0, 0, 0, 0), [BaseStyle EXCEPT !.display = "none"],
                    <<>>)
    IN WithKeys(Element("DIV", "", "hidden-renderer-root dark", layout.rect, BaseStyle,
                        (IF inlineCss # "" THEN <<styleElement>> ELSE <<>>) \o layout.content),
                "r")

hasLayoutBox(element) == element.rect.width > 0 /\ element.rect.height > 0

\* a string held by a state that can also hold null
Str(value) == [kind |-> "string", value |-> value]

\* what is observed of the last invocation of handleGenerate: how it ended,
\* and how the fetches of its stylesheet links settled
NoneObserved == [outcome |-> "none", responses |-> <<>>, inlineCss |-> ""]

\* The state of the App component after its first render: the values of its
\* useState hooks, its ref, and the Tailwind scripts it has added to the
\* head of the document.
InitHost ==
    /\ nodeCounter = 0
    /\ dom = NullHandle
    /\ op = "idle"
    /\ arg = NoValue
    /\ ret = NoValue
    /\ obs = NoneObserved
    /\ app = [htmlInput |-> "", svgOutput |-> "", isGenerating |-> FALSE,
              activeAction |-> Null, errorMessage |-> Null, toast |-> Null,
              hiddenContainerRef |-> TRUE, cdnScripts |-> {}, configScript |-> ""]

\* the variables as one record, which the steps of handleGenerate map to
\* the record of the state they leave
Frame ==
    [nodeCounter |-> nodeCounter, dom |-> dom, op |-> op, arg |-> arg, ret |-> ret,
     obs |-> obs, app |-> app]

Becomes(m) ==
    /\ nodeCounter' = m.nodeCounter
    /\ dom' = m.dom
    /\ op' = m.op
    /\ arg' = m.arg
    /\ ret' = m.ret
    /\ obs' = m.obs
    /\ app' = m.app

showToast(m, message, tone) == [m EXCEPT !.app.toast = [message |-> message, tone |-> tone]]

\* an invocation that ends without its finally block
finallyBlockSkipped(m) == [m EXCEPT !.op = "idle", !.arg = NoValue]

\* the finally block of handleGenerate, with which the invocation and its
\* locals end
finallyBlock(m) ==
    [m EXCEPT !.app.isGenerating = FALSE, !.app.activeAction = Null, !.op = "idle",
              !.arg = NoValue]

\* the catch block of handleGenerate and the finally block after it
catchBlock(m, message) ==
    finallyBlock(showToast([m EXCEPT !.app.svgOutput = "", !.app.errorMessage = Str(message),
                                     !.obs.outcome = "failure"],
                           message, "error"))

\* handleGenerate from if (!hasLayoutBox(rootElement)) on, up to the await
\* of copySvgToClipboard or the end
generated(m) ==
    LET returned(result) == [m EXCEPT !.nodeCounter = result.counter]
        shown(n, svgString) ==
            IF n.arg.shouldCopy
            THEN [n EXCEPT !.app.svgOutput = svgString, !.op = "copy"]
            ELSE finallyBlock(showToast([n EXCEPT !.app.svgOutput = svgString,
                                                  !.obs.outcome = "success"],
                                        "SVG generated", "success"))
        called(result) ==
            IF result.threw THEN catchBlock(returned(result), result.value)
            ELSE shown(returned(result), result.value)
    IN IF ~hasLayoutBox(m.dom) THEN catchBlock(m, "Root element has no measurable layout")
       ELSE called(htmlToSvg(m.dom, [inlineCss |-> m.arg.collectedCss], m.nodeCounter))

\* collectedCss after the collection of the styles Tailwind emitted:
\* generatedGlobal is the text of the style blocks new in the document.
collectedOf(collectedCss, generatedGlobal) ==
    LET join(a, b) == JoinWith(SelectSeq(<<a, b>>, LAMBDA part : part # ""), "\n")
        withGlobal == IF generatedGlobal # ""
                      THEN join(collectedCss, rewriteCssForSvg(generatedGlobal))
                      ELSE collectedCss
        \* the style element of the wrapper holds the CSS it was mounted with
        generatedLocal == collectedCss
    IN IF generatedLocal # ""
       THEN join(withGlobal, rewriteCssForSvg(generatedLocal))
       ELSE withGlobal

\* handleGenerate from the end of the collection on: css is what was
\* collected, layout is how the wrapper is laid out by now.
collected(m, css, layout) ==
    generated([m EXCEPT !.arg.collectedCss = css,
                        !.dom = mountHiddenMarkup(m.arg.markup, m.arg.collectedCss, layout)])

\* handleGenerate from mountHiddenMarkup on, up to its next await or its
\* end: css is collectedCss after rewriteCssForSvg
mounted(m, css, layout) ==
    LET n == [m EXCEPT !.arg.collectedCss = css,
                       !.dom = mountHiddenMarkup(m.arg.markup, css, layout)]
        url == m.arg.tailwindCdnUrl
        configured == IF m.arg.tailwindConfigInline # ""
                      THEN [n EXCEPT !.app.configScript = m.arg.tailwindConfigInline]
                      ELSE n
    IN IF url = "" THEN generated(n)
       ELSE IF url \in m.app.cdnScripts THEN [configured EXCEPT !.op = "timer"]
       ELSE [configured EXCEPT !.app.cdnScripts = @ \cup {url}, !.op = "cdn"]

\* collectedCss had Promise.all rejected when a fetch fails
inlinedOfAllOrNothing(inlineCss, fetched) ==
    IF \E k \in DOMAIN fetched : fetched[k] = "" THEN inlineCss
    ELSE JoinWith(SelectSeq(fetched \o <<inlineCss>>, LAMBDA part : part # ""), "\n")

\* collectedCss after the stylesheets were inlined: fetched is what
\* Promise.all resolved with
inlinedOf(inlineCss, fetched) ==
    LET inlined == JoinWith(SelectSeq(fetched, LAMBDA text : text # ""), "\n")
    IN IF inlined # ""
       THEN JoinWith(SelectSeq(<<inlined, inlineCss>>, LAMBDA part : part # ""), "\n")
       ELSE inlineCss

\* the answers to the fetch of a stylesheet: a response that is ok, one
\* that is not, and a network error
ResponseSample ==
    { [settled |-> "ok", text |-> "li{}"],
      [settled |-> "notOk", text |-> "Not Found"],
      [settled |-> "error", text |-> ""] }

\* sanitizeHtmlInput on the inputs of the sample, evaluated once
sanitizedSample == [value \in HtmlInputSample |-> sanitizeHtmlInput(value)]

\* the values collectedCss can have before it is rewritten: the style blocks
\* of an input with what its links were fetched as
CollectedSample ==
    UNION { {inlinedOf(sanitizedSample[value].inlineCss, fetched) :
               fetched \in [DOMAIN sanitizedSample[value].stylesheetLinks ->
                               {""} \cup {response.text : response \in ResponseSample}]} :
            value \in HtmlInputSample }

\* rewriteCssForSvg on these values, evaluated once
rewrittenSample == [css \in CollectedSample |-> rewriteCssForSvg(css)]

\* handleGenerate from setIsGenerating(true) on, up to its first await or
\* its end: sanitized is what sanitizeHtmlInput(htmlInput) returns
started(m, shouldCopy, layout, sanitized) ==
    LET n == [m EXCEPT !.app.isGenerating = TRUE,
                       !.app.activeAction = Str(IF shouldCopy THEN "copy" ELSE "generate"),
                       !.app.errorMessage = Null,
                       !.obs = NoneObserved,
                       !.arg = [shouldCopy |-> shouldCopy,
                                markup |-> sanitized.markup,
                                inlineCss |-> sanitized.inlineCss,
                                stylesheetLinks |-> sanitized.stylesheetLinks,
                                tailwindCdnUrl |-> sanitized.tailwindCdnUrl,
                                tailwindConfigInline |-> sanitized.tailwindConfigInline,
                                collectedCss |-> sanitized.inlineCss]]
    IN IF sanitized.markup = "" THEN catchBlock(n, "Markup could not be parsed.")
       ELSE IF sanitized.stylesheetLinks # <<>> THEN [n EXCEPT !.op = "fetch"]
       ELSE mounted(n, rewrittenSample[sanitized.inlineCss], layout)

\* handleGenerate(shouldCopy) up to its first await or its end
handleGenerate(m, shouldCopy, layout) ==
    IF ~m.app.hiddenContainerRef
    THEN showToast([m EXCEPT !.obs = NoneObserved], "Hidden renderer is not ready", "error")
    ELSE IF Trim(m.app.htmlInput) = ""
         THEN showToast([m EXCEPT !.obs = NoneObserved,
                                  !.app.errorMessage =
                                     Str("Please paste your HTML before generating.")],
                        "Please paste your HTML before generating.", "error")
    ELSE started(m, shouldCopy, layout, sanitizedSample[m.app.htmlInput])

\* what Tailwind may have added to the document as style blocks
GeneratedSample == {"", ".p-4{padding:1rem;}"}

\* how copySvgToClipboard settles: the text is written, or the call rejects
\* with an Error or with another value
ClipboardSample ==
    { [written |-> TRUE, isError |-> FALSE, message |-> ""],
      [written |-> FALSE, isError |-> TRUE,
       message |-> "Clipboard API is not available in this browser."],
      [written |-> FALSE, isError |-> FALSE, message |-> ""] }

\* onChange of the source textarea
SetHtmlInput ==
    /\ \E value \in HtmlInputSample : app' = [app EXCEPT !.htmlInput = value]
    /\ UNCHANGED <<nodeCounter, dom, op, arg, ret, obs>>

\* the timeout of the toast effect
ToastExpires ==
    /\ app.toast # Null
    /\ app' = [app EXCEPT !.toast = Null]
    /\ UNCHANGED <<nodeCounter, dom, op, arg, ret, obs>>

\* a click on one of the two buttons, which are disabled while isGenerating
HandleGenerate ==
    /\ ~app.isGenerating
    /\ nodeCounter < MaxNodeCounter
    /\ \E shouldCopy \in BOOLEAN, layout \in LayoutSample :
          \E m \in {handleGenerate(Frame, shouldCopy, layout)} : Becomes(m)

\* Promise.all of the fetches settles: each callback returns the text of a
\* response that is ok and '' otherwise
FetchSettles ==
    /\ op = "fetch"
    /\ \E responses \in [DOMAIN arg.stylesheetLinks -> ResponseSample] :
          \E css \in {rewrittenSample[
                          inlinedOf(arg.inlineCss,
                                    [k \in DOMAIN responses |->
                                       IF responses[k].settled = "ok" THEN responses[k].text
                                       ELSE ""])]} :
             \E layout \in LayoutSample :
                \E m \in {mounted([Frame EXCEPT !.obs.responses = responses,
                                                !.obs.inlineCss = arg.inlineCss],
                                  css, layout)} : Becomes(m)

\* the Tailwind script loads, and the handler waits for the timer, or fails
\* to load, and the handler goes on
CdnSettles ==
    /\ op = "cdn"
    /\ \/ Becomes([Frame EXCEPT !.op = "timer"])
       \/ \E generatedGlobal \in GeneratedSample :
             \E css \in {collectedOf(arg.collectedCss, generatedGlobal)} :
                \E layout \in LayoutSample :
                   \E m \in {collected(Frame, css, layout)} : Becomes(m)

\* the 500 ms after the script has loaded are over
TimerFires ==
    /\ op = "timer"
    /\ \E generatedGlobal \in GeneratedSample :
          \E css \in {collectedOf(arg.collectedCss, generatedGlobal)} :
             \E layout \in LayoutSample :
                \E m \in {collected(Frame, css, layout)} : Becomes(m)

\* copySvgToClipboard settles
CopySettles ==
    /\ op = "copy"
    /\ \E settled \in ClipboardSample :
          \E m \in {IF settled.written
                     THEN finallyBlock(showToast([Frame EXCEPT !.obs.outcome = "success"],
                                                 "Copied SVG to clipboard", "success"))
                     ELSE catchBlock(Frame, IF settled.isError THEN settled.message
                                            ELSE "Failed to generate SVG.")} : Becomes(m)

NextHost ==
    \/ SetHtmlInput
    \/ ToastExpires
    \/ HandleGenerate
    \/ FetchSettles
    \/ CdnSettles
    \/ TimerFires
    \/ CopySettles

SpecHost == InitHost /\ [][NextHost]_vars

\* A step with which the handler leaves its await of awaited.  Among the
\* steps of NextHost these are the steps of the action that settles the
\* awaited operation (FetchSettles, CdnSettles, TimerFires, CopySettles),
\* which is enabled as long as the handler awaits.
Settles(awaited) ==
    /\ op = awaited
    /\ op' \in {"idle", "fetch", "cdn", "timer", "copy"} \ {awaited}

\* The awaited operations settle: the fetches, the load of the script, the
\* timer and the clipboard.
SpecHostFair ==
    /\ SpecHost
    /\ WF_op(Settles("fetch"))
    /\ WF_op(Settles("cdn"))
    /\ WF_op(Settles("timer"))
    /\ WF_op(Settles("copy"))

\* C26: when the fetch of a linked stylesheet failed (a network error or a
\* response that is not ok), the link counts as empty and nothing else
\* changes: the document carries the rewritten CSS of the links that were
\* fetched and of the style blocks, no error message is set for the link,
\* and the only failures are those of the steps after the fetch (a wrapper
\* without a layout box, a clipboard that rejects).
C26_FailedLinkIsEmpty ==
    LET responses == obs.responses
        texts == [k \in DOMAIN responses |->
                    IF responses[k].settled = "ok" THEN responses[k].text ELSE ""]
        expected ==
            Trim(rewriteCssForSvg(JoinWith(SelectSeq(texts \o <<obs.inlineCss>>,
                                                     LAMBDA part : part # ""), "\n")))
        clipboardMessages == {"Clipboard API is not available in this browser.",
                              "Failed to generate SVG."}
    IN (/\ op \in {"idle", "copy"}
        /\ \E k \in DOMAIN responses : responses[k].settled # "ok")
       => IF hasLayoutBox(dom)
          THEN \/ /\ app.errorMessage = Null
                  /\ obs.outcome # "failure"
                  /\ Includes(app.svgOutput, "<svg")
                  /\ Includes(app.svgOutput, expected)
               \/ /\ obs.outcome = "failure"
                  /\ app.errorMessage \in {Str(message) : message \in clipboardMessages}
          ELSE app.errorMessage = Str("Root element has no measurable layout")

\* a document was generated although one of two links could not be fetched,
\* and it carries the rule of the other link
C26_Witness ==
    /\ op = "idle"
    /\ obs.outcome = "success"
    /\ Len(obs.responses) = 2
    /\ obs.responses[1].settled = "error"
    /\ obs.responses[2].settled = "ok"
    /\ app.errorMessage = Null
    /\ Includes(app.svgOutput, "text[data-tag=\"li\"]{}")

\* the same with a response that is not ok in the second place
C26_WitnessNotOk ==
    /\ Len(obs.responses) = 2
    /\ obs.responses[1].settled = "ok"
    /\ obs.responses[2].settled = "notOk"
    /\ op = "copy"
    /\ Includes(app.svgOutput, "text[data-tag=\"li\"]{}")

\* C29: an invocation of handleGenerate that has set isGenerating ends, when
\* what it awaits settles, with isGenerating false and activeAction null;
\* no invocation is left with them set once the handler is idle; and an
\* invocation that ended in failure has left the SVG output empty and an
\* error message set.
C29_GeneratingEnds ==
    /\ app.isGenerating ~> (~app.isGenerating /\ app.activeAction = Null)
    /\ [](op = "idle" => ~app.isGenerating /\ app.activeAction = Null)
    /\ [](obs.outcome = "failure"
             => /\ op = "idle"
                /\ app.svgOutput = ""
                /\ app.errorMessage # Null
                /\ app.errorMessage.value # "")

\* the clipboard rejected after the document was generated and shown: the
\* invocation has ended, and the document is not displayed any more
C29_Witness ==
    /\ op = "idle"
    /\ obs.outcome = "failure"
    /\ nodeCounter > 0
    /\ app.errorMessage = Str("Clipboard API is not available in this browser.")
    /\ app.svgOutput = ""
    /\ ~app.isGenerating
    /\ app.activeAction = Null

====
